---- MODULE Spec2Model ----
(***************************************************************************)
(* Package progutil of smart-edge-open/common: the preface classifier with *)
(* its role-tagged handoff slots and the reverse-dial listener with its    *)
(* connection health tracker.  The repository holds two revisions of the   *)
(* package: proxy/progutil/progutil.go (role tokens EVA/ELA, pool          *)
(* counters) and unnamed/part_001 (HTTP/2 client preface, redial token,    *)
(* and the TLS listener that splits connections by server name).           *)
(* A behaviour runs one component of one revision, chosen by `rev`.        *)
(***************************************************************************)
EXTENDS Integers, Sequences, FiniteSets, TLC

VARIABLES
  rev,        \* which component this behaviour runs
  ev,         \* the call that returned in the last step, with what it returned
  loops,      \* how many goroutines call the listener's Accept in a loop
  \* ---- progutil.go PrefaceListener ----
  ch,         \* PrefaceListener.ch: registered address -> [eva, ela] channel ids
  chans,      \* every channel made by RegisterHost: whose it is, and its buffer
  nregs,      \* number of RegisterHost calls so far
  mapw,       \* the address a RegisterHost call is writing into the map, if any
  lisClosed,  \* the wrapped net.Listener has been closed
  conns,      \* every connection the wrapped listener has handed out
  acc,        \* the goroutines calling PrefaceListener.Accept
  dial,       \* the goroutines calling DialEva / DialEla
  \* ---- progutil.go DialListener ----
  established, \* DialListener.established
  active,     \* DialListener.active
  dlClosed,   \* DialListener.Close has been called
  pool,       \* every connection net.Dial has given to DialListener.Accept
  dacc,       \* the goroutines calling DialListener.Accept
  wrk,        \* the goroutines using the connections Accept delivered
  dlLeft,     \* the calls the upper layer still makes, or Unlimited
  \* ---- part_001 PrefaceListener ----
  p1init,     \* l.init has run: l.ch has been made
  p1ch,       \* l.ch: whether it is closed, and its buffer
  p1lis,      \* the wrapped net.Listener has been closed
  p1conns,    \* every connection the wrapped listener has handed out
  p1acc,      \* the goroutines calling Accept
  p1dial,     \* the goroutines calling Dial
  p1cls,      \* the goroutines calling Close
  p1panic,    \* the run-time panic that has ended the program, if any
  \* ---- part_001 DialListener ----
  d1closing,  \* lis.closing: nil, open or closed
  d1redial,   \* the tokens in lis.redialC
  d1conn,     \* lis.conn
  d1closed,   \* DialListener.Close has been called
  d1pool,     \* every connection the dialer has given to Accept
  d1acc,      \* the goroutines calling Accept
  d1wrk,      \* the goroutines using the connections Accept delivered
  \* ---- part_001 SplitTLSListener ----
  stReg,      \* l.matchers: the server names of the SplitSNI calls, in order
  stQ,        \* the connections that wait in the channel of each child
  stLeft,     \* how many more connections with a split name peers will open
  stOut,      \* the highest number of a connection each child's Accept returned
  stLis,      \* the wrapped net.Listener has been closed
  stAcc,      \* the goroutines calling SplitTLSListener.Accept
  \* ---- the net.Listener a PrefaceListener wraps (Addr, SetDeadline) ----
  wlKind,     \* its type: "tcp" has a SetDeadline method, "plain" has none
  wlAddr,     \* its address
  wlDeadline, \* the accept deadline it has been given, 0 for none
  wlClosed    \* it has been closed

plVars == <<ch, chans, nregs, mapw, lisClosed, conns, acc, dial>>
dlVars == <<established, active, dlClosed, pool, dacc, wrk, dlLeft>>
p1Vars == <<p1init, p1ch, p1lis, p1conns, p1acc, p1dial, p1cls, p1panic>>
d1Vars == <<d1closing, d1redial, d1conn, d1closed, d1pool, d1acc, d1wrk>>
stVars == <<stReg, stQ, stLeft, stOut, stLis, stAcc>>
wlVars == <<wlKind, wlAddr, wlDeadline, wlClosed>>
vars == <<rev, ev, loops, plVars, dlVars, p1Vars, d1Vars, stVars, wlVars>>

\* ------------------------------------------------------------------ bounds
MaxConns == 2      \* connections the wrapped listener hands out
MaxTail == 1       \* application bytes a peer sends after its preface
MaxRegs == 2       \* RegisterHost calls
MaxPooled == 2     \* connections net.Dial gives to DialListener.Accept
MaxPooledOne == 3  \* the same, when the upper layer makes at most MaxCalls calls
MaxCalls == 3      \* Read, Write and Close calls of the upper layer, when it makes few
MaxRoutines == 3   \* goroutines around a DialListener: Accept loops and users
MaxSplits == 2     \* SplitSNI calls
MaxDeadline == 3   \* the times SetDeadline is called with: 1..MaxDeadline
MaxInbound == 3    \* inbound connections with a split name, when peers open few

Addrs == {"10.0.0.5", "10.0.0.6"}
Acceptors == {1, 2}
Dialers == {"d1", "d2"}
Workers == {1, 2}
Closers == {"k1", "k2"}

\* stLeft when peers open any number of connections with a split name (the
\* model then does not tell these connections from one another), and
\* dlLeft when the upper layer makes any number of calls.
Unlimited == -1

\* --------------------------------------------------------------- constants
PacketLen == 3     \* make([]byte, 3)
ChanCap == 1       \* make(chan net.Conn, 1)
EVA == <<69, 86, 65>>
ELA == <<69, 76, 65>>

Min(a, b) == IF a < b THEN a ELSE b

\* The application bytes a peer sends after its preface: n distinct bytes.
AppBytes(n) == [i \in 1..n |-> 100 + i]

\* What a peer may send on a fresh connection: a role token or something
\* else, followed by application bytes; or nothing at all.
Prefaces == {EVA, ELA, <<80, 82, 73>>}
Streams == {p \o AppBytes(MaxTail) : p \in Prefaces} \cup {<<>>}

\* ------------------------------------------------------- byte-stream model
\* conn.Read(p) on a stream with `avail` unread bytes: it blocks until data
\* or EOF, then returns between 1 and len(p) of the available bytes, or 0
\* (with io.EOF) when the peer has sent nothing more.
ReadSizes(avail, len) ==
  IF avail = 0 THEN {0} ELSE 1..Min(avail, len)

\* The unread remainder of the underlying connection.
Rest(c) == SubSeq(c.sent, c.pos + 1, Len(c.sent))

\* io.MultiReader: the readers' contents one after the other.
RECURSIVE MultiReader(_)
MultiReader(rs) ==
  IF rs = <<>> THEN <<>> ELSE Head(rs) \o MultiReader(Tail(rs))

\* readerConn{conn, io.MultiReader(io.MultiReader(bytes.NewBuffer(packet),
\* io.Reader(conn)), conn)}: what reading it to the end yields.  The last
\* reader is the same connection, already drained by the one before it.
ReaderConn(c) == MultiReader(<<MultiReader(<<c.replay, Rest(c)>>), <<>>>>)

\* What the holder of a returned connection reads from it: a client
\* connection is a readerConn, a dialled one is the raw connection.
ReadAll(c) == IF c.wrapped THEN ReaderConn(c) ELSE Rest(c)

\* ------------------------------------------------------------------- Init
\* No connection object.
NoConn == [addr |-> "", sent |-> <<>>, pos |-> 0, replay |-> <<>>, wrapped |-> FALSE]

\* ev: op is the call, kind what it returned, conn the number of the
\* connection it returned or was made on, val the returned object, chan the
\* channel a dial call received it from, and n the byte count it returned.
NoEv == [op |-> "none", kind |-> "none", conn |-> 0, val |-> NoConn, chan |-> 0, n |-> 0]
Ev(op, kind, conn) == [NoEv EXCEPT !.op = op, !.kind = kind, !.conn = conn]

IdleAcc == [pc |-> "idle", conn |-> 0, chan |-> 0]

\* mapw when no RegisterHost call is writing the map, and after the runtime
\* has stopped the process with "concurrent map read and map write".
NoWrite == ""
Fatal == "fatal"
IdleDial == [pc |-> "idle", chan |-> 0, addr |-> "", role |-> "", after |-> 0]

InitPL ==
  /\ ch = <<>>
  /\ chans = <<>>
  /\ nregs = 0
  /\ mapw = NoWrite
  /\ lisClosed = FALSE
  /\ conns = <<>>
  /\ acc = [a \in Acceptors |-> IdleAcc]
  /\ dial = [d \in Dialers |-> IdleDial]

\* ---------------------------------------------- progutil.go PrefaceListener
\* Every step of this component leaves the other components alone.
PLFrame ==
  rev = "PL" /\ mapw # Fatal /\ UNCHANGED <<rev, dlVars, p1Vars, d1Vars, stVars, wlVars>>

\* RegisterHost is called and begins its assignment to the map l.ch; it
\* takes no lock, so the other goroutines go on while it writes.
RegisterBegin(addr) ==
  /\ PLFrame
  /\ mapw = NoWrite
  /\ nregs < MaxRegs
  /\ addr = "10.0.0.6" => "10.0.0.5" \in DOMAIN ch
  /\ mapw' = addr
  /\ ev' = NoEv
  /\ UNCHANGED <<loops, ch, chans, nregs, lisClosed, conns, acc, dial>>

\* RegisterHost: l.ch[addr] = applianceChans{eva: make(chan, 1), ela: make(chan, 1)}
RegisterHost(addr) ==
  /\ PLFrame
  /\ mapw = addr
  /\ mapw' = NoWrite
  /\ nregs' = nregs + 1
  /\ ch' = [x \in (DOMAIN ch) \cup {addr} |->
              IF x = addr THEN [eva |-> Len(chans) + 1, ela |-> Len(chans) + 2]
              ELSE ch[x]]
  /\ chans' = chans \o <<[addr |-> addr, role |-> "EVA", buf |-> <<>>],
                          [addr |-> addr, role |-> "ELA", buf |-> <<>>]>>
  /\ ev' = NoEv
  /\ UNCHANGED <<loops, lisClosed, conns, acc, dial>>

\* The embedded net.Listener's Close: PrefaceListener defines none of its own.
PLClose ==
  /\ PLFrame
  /\ ~lisClosed
  /\ lisClosed' = TRUE
  /\ ev' = NoEv
  /\ UNCHANGED <<loops, mapw, ch, chans, nregs, conns, acc, dial>>

\* bytes.Equal(packet, []byte("EVA")) / bytes.Equal(packet, []byte("ELA"))
Agent(packet) ==
  IF packet = EVA THEN "EVA" ELSE IF packet = ELA THEN "ELA" ELSE ""

\* A connection just accepted from `addr` whose peer sends `s`, after the
\* packet Read returned n bytes.  fate: where the listener has put it;
\* claims: how many dial calls have returned it.
NewConn(addr, s, n) ==
  [addr |-> addr, sent |-> s, pos |-> n, replay |-> <<>>, wrapped |-> FALSE,
   agent |-> Agent(SubSeq(s, 1, n)), closed |-> FALSE, fate |-> "held",
   claims |-> 0, chan |-> 0]

\* A client connection leaves the listener when Accept returns it (the
\* returned object is in ev); the listener keeps no reference to it.
Returned == [NewConn("", <<>>, 0) EXCEPT !.fate = "client"]

\* The readerConn Accept builds around a client connection.
\* (The first is the same without the replayed packet.)
ReconstructNoReplay(addr, s, n) ==
  [addr |-> addr, sent |-> s, pos |-> n, replay |-> <<>>, wrapped |-> TRUE]
Reconstruct(addr, s, n) ==
  [addr |-> addr, sent |-> s, pos |-> n, replay |-> SubSeq(s, 1, n), wrapped |-> TRUE]

\* The channel storeConn and DialEva / DialEla select for a registered
\* address.  (The first takes the other agent's channel.)
SlotOfSwapped(addr, agent) == IF agent = "EVA" THEN ch[addr].ela ELSE ch[addr].eva
SlotOf(addr, agent) == IF agent = "EVA" THEN ch[addr].eva ELSE ch[addr].ela

\* l.storeConn(conn, string(packet)): the object Accept hands to storeConn
\* is the accepted connection itself, from which the packet has been read.
\* (The first hands over a readerConn that replays the packet.)
StoredConnReplays(c) == [c EXCEPT !.wrapped = TRUE, !.replay = SubSeq(c.sent, 1, c.pos)]
StoredConn(c) == c

\* l.Listener.Accept failed: return nil, err
AcceptErr(a) ==
  /\ PLFrame
  /\ a <= loops
  /\ acc[a].pc = "idle"
  /\ lisClosed
  /\ ev' = Ev("Accept", "err", 0)
  /\ UNCHANGED <<loops, mapw, ch, chans, nregs, lisClosed, conns, acc, dial>>

\* Accept up to the first select of storeConn: l.Listener.Accept, the
\* conn.Read of the 3-byte packet, the classification, and for a role token
\* the lookup of the peer's channels.
AcceptConn(a) ==
  /\ PLFrame
  /\ a <= loops
  /\ acc[a].pc = "idle"
  /\ ~lisClosed
  /\ Len(conns) < MaxConns
  /\ \E addr \in Addrs, s \in Streams :
       \E n \in ReadSizes(Len(s), PacketLen) :
         LET c == NewConn(addr, s, n)
             id == Len(conns) + 1
         IN  \/ /\ c.agent = ""
                \* a client: reconstruct the data and return immediately
                /\ conns' = Append(conns, Returned)
                /\ ev' = [Ev("Accept", "conn", id) EXCEPT !.val = Reconstruct(addr, s, n)]
                /\ UNCHANGED acc
             \/ /\ c.agent # ""
                /\ addr \notin DOMAIN ch
                \* storeConn: "Can't store conn from non-registered"; the
                \* connection is neither stored nor closed
                /\ conns' = Append(conns, [c EXCEPT !.fate = "unrouted"])
                /\ ev' = Ev("Accept", "temp", 0)
                /\ UNCHANGED acc
             \/ /\ c.agent # ""
                /\ addr \in DOMAIN ch
                /\ conns' = Append(conns, [StoredConn(c) EXCEPT
                                             !.chan = SlotOf(addr, c.agent)])
                /\ acc' = [acc EXCEPT ![a] = [pc |-> "drain", conn |-> id,
                                              chan |-> SlotOf(addr, c.agent)]]
                /\ ev' = NoEv
  /\ UNCHANGED <<loops, mapw, ch, chans, nregs, lisClosed, dial>>

\* storeConn: apc, ok := l.ch[addr] while a RegisterHost call is writing
\* the map.  The read is a data race: it either goes on with a value of the
\* map (AcceptConn; a read that sees the new entry is the read after the
\* write has ended) or the runtime detects it and stops the process.
StoreConnRace(a) ==
  /\ PLFrame
  /\ a <= loops
  /\ acc[a].pc = "idle"
  /\ ~lisClosed
  /\ Len(conns) < MaxConns
  /\ mapw \in Addrs
  /\ mapw' = Fatal
  /\ ev' = NoEv
  /\ UNCHANGED <<loops, ch, chans, nregs, lisClosed, conns, acc, dial>>

\* discard.Close() / conn.Close() on connection c.
\* (The first leaves the connection open.)
CloseConnLeak(cs, c) == cs
CloseConn(cs, c) == [cs EXCEPT ![c].closed = TRUE]

\* case discard := <-ch: what the receive leaves in the channel.
\* (The first leaves the previous conn in it.)
DrainedNot(buf) == buf
Drained(buf) == Tail(buf)

\* storeConn, first select: empty the channel of a previous conn, if any.
StoreDrain(a) ==
  /\ PLFrame
  /\ acc[a].pc = "drain"
  /\ LET k == acc[a].chan IN
       \/ /\ chans[k].buf # <<>>
          /\ chans' = [chans EXCEPT ![k].buf = Drained(@)]
          /\ conns' = CloseConn(conns, Head(chans[k].buf))
       \/ /\ chans[k].buf = <<>>
          /\ UNCHANGED <<chans, conns>>
  /\ acc' = [acc EXCEPT ![a].pc = "store"]
  /\ ev' = NoEv
  /\ UNCHANGED <<loops, mapw, ch, nregs, lisClosed, dial>>

\* Whether a non-blocking send on a channel holding `buf` goes through.
CanSendAlways(buf) == TRUE
CanSend(buf) == Len(buf) < ChanCap

\* (A second select that neither sends nor closes.)
StorePutLoses(a) ==
  /\ PLFrame
  /\ acc[a].pc = "store"
  /\ acc' = [acc EXCEPT ![a] = IdleAcc]
  /\ ev' = Ev("Accept", "temp", 0)
  /\ UNCHANGED <<loops, mapw, ch, chans, nregs, lisClosed, conns, dial>>

\* (A second select without its default case: the send waits for room.)
StorePutWaits(a) ==
  /\ PLFrame
  /\ acc[a].pc = "store"
  /\ CanSend(chans[acc[a].chan].buf)
  /\ chans' = [chans EXCEPT ![acc[a].chan].buf = Append(@, acc[a].conn)]
  /\ conns' = [conns EXCEPT ![acc[a].conn].fate = "slot"]
  /\ acc' = [acc EXCEPT ![a] = IdleAcc]
  /\ ev' = Ev("Accept", "temp", 0)
  /\ UNCHANGED <<loops, mapw, ch, nregs, lisClosed, dial>>

\* storeConn, second select: store conn unless an equally recent conn
\* already got stored; then Accept returns nil, tempErr{}.
StorePut(a) ==
  /\ PLFrame
  /\ acc[a].pc = "store"
  /\ LET k == acc[a].chan
         c == acc[a].conn
     IN  \/ /\ CanSend(chans[k].buf)
            /\ chans' = [chans EXCEPT ![k].buf = Append(@, c)]
            /\ conns' = [conns EXCEPT ![c].fate = "slot"]
         \/ /\ ~CanSend(chans[k].buf)
            /\ conns' = CloseConn([conns EXCEPT ![c].fate = "refused"], c)
            /\ UNCHANGED chans
  /\ acc' = [acc EXCEPT ![a] = IdleAcc]
  /\ ev' = Ev("Accept", "temp", 0)
  /\ UNCHANGED <<loops, mapw, ch, nregs, lisClosed, dial>>

\* The last connection of (addr, role) that a storeConn has put into a
\* channel, 0 if there is none.
LastStored(addr, role) ==
  LET S == {c \in 1..Len(conns) : /\ conns[c].addr = addr /\ conns[c].agent = role
                                  /\ conns[c].fate = "slot"}
  IN  IF S = {} THEN 0 ELSE CHOOSE m \in S : \A x \in S : x <= m

\* DialEva: l.dialCommon(ctx, apc.eva, dur); DialEla: ... apc.ela ...
\* (The first waits on the channel of the other agent.)
DialSlotOther(addr, role) == SlotOf(addr, IF role = "EVA" THEN "ELA" ELSE "EVA")
DialSlot(addr, role) == SlotOf(addr, role)

\* DialEva / DialEla up to the select of dialCommon; after: the last
\* connection stored for the slot when the call started.
DialStart(d) ==
  /\ PLFrame
  /\ dial[d].pc = "idle"
  /\ \E addr \in Addrs, role \in {"EVA", "ELA"} :
       \/ /\ addr \notin DOMAIN ch
          /\ ev' = Ev("Dial", "unregistered", 0)
          /\ UNCHANGED dial
       \/ /\ addr \in DOMAIN ch
          /\ dial' = [dial EXCEPT ![d] = [pc |-> "wait", chan |-> DialSlot(addr, role),
                                          addr |-> addr, role |-> role,
                                          after |-> LastStored(addr, role)]]
          /\ ev' = NoEv
  /\ UNCHANGED <<loops, mapw, ch, chans, nregs, lisClosed, conns, acc>>

\* DialEva / DialEla: apc, ok := l.ch[addr] while a RegisterHost call is
\* writing the map: the same data race as in storeConn.
DialRace(d) ==
  /\ PLFrame
  /\ dial[d].pc = "idle"
  /\ mapw \in Addrs
  /\ mapw' = Fatal
  /\ ev' = NoEv
  /\ UNCHANGED <<loops, ch, chans, nregs, lisClosed, conns, acc, dial>>

\* What a receive leaves in the channel's buffer.
AfterRecvKeep(buf) == buf
AfterRecv(buf) == Tail(buf)

\* dialCommon: case conn := <-ch.  No channel of this revision is ever
\* closed, so the received conn is never nil.
DialRecv(d) ==
  /\ PLFrame
  /\ dial[d].pc = "wait"
  /\ LET k == dial[d].chan IN
       /\ chans[k].buf # <<>>
       /\ chans' = [chans EXCEPT ![k].buf = AfterRecv(@)]
       /\ conns' = [conns EXCEPT ![Head(chans[k].buf)].claims = @ + 1]
       /\ ev' = [Ev("Dial", "conn", Head(chans[k].buf)) EXCEPT !.chan = k]
  /\ dial' = [dial EXCEPT ![d] = IdleDial]
  /\ UNCHANGED <<loops, mapw, ch, nregs, lisClosed, acc>>

\* (A timeout that also takes what the channel holds.)
DialTimeoutTakes(d) ==
  /\ PLFrame
  /\ dial[d].pc = "wait"
  /\ dial' = [dial EXCEPT ![d] = IdleDial]
  /\ ev' = Ev("Dial", "deadline", 0)
  /\ chans' = [chans EXCEPT ![dial[d].chan].buf = <<>>]
  /\ UNCHANGED <<loops, mapw, ch, nregs, lisClosed, conns, acc>>

\* dialCommon: case <-time.After(dur): return nil, context.DeadlineExceeded
DialTimeout(d) ==
  /\ PLFrame
  /\ dial[d].pc = "wait"
  /\ dial' = [dial EXCEPT ![d] = IdleDial]
  /\ ev' = Ev("Dial", "deadline", 0)
  /\ UNCHANGED <<loops, mapw, ch, chans, nregs, lisClosed, conns, acc>>

NextPL ==
  \/ \E addr \in Addrs : RegisterBegin(addr) \/ RegisterHost(addr)
  \/ PLClose
  \/ \E a \in Acceptors :
       \/ AcceptErr(a) \/ AcceptConn(a) \/ StoreConnRace(a)
       \/ StoreDrain(a) \/ StorePut(a)
  \/ \E d \in Dialers : DialStart(d) \/ DialRace(d) \/ DialRecv(d) \/ DialTimeout(d)

\* ------------------------------------------------- progutil.go DialListener
DLFrame == rev = "DL" /\ UNCHANGED <<rev, loops, plVars, p1Vars, d1Vars, stVars, wlVars>>

\* &notifyOnNetErr{Conn: conn, L: lis} around a connection net.Dial has just
\* returned.  flag is conn.active; closed: Conn.Close has been called; name:
\* what became of the Write of the listener's Name; delivered: Accept has
\* returned it.
\* decs, incs count what the connection has done to established and active.
NewPooled ==
  [flag |-> FALSE, onceErr |-> "new", onceRead |-> "new", closed |-> FALSE,
   name |-> "none", delivered |-> FALSE, decs |-> 0, incs |-> 0]

IdleDAcc == [pc |-> "idle", est |-> 0, spare |-> FALSE]
IdleWrk == [pc |-> "idle", conn |-> 0, op |-> "", n |-> 0, err |-> ""]

InitDL ==
  /\ established = 0
  /\ active = 0
  /\ dlClosed = FALSE
  /\ pool = <<>>
  /\ dacc = [a \in Acceptors |-> IdleDAcc]
  /\ wrk = [w \in Workers |-> IdleWrk]
  /\ dlLeft \in (IF rev = "DL" /\ loops = 1 THEN {Unlimited, MaxCalls} ELSE {Unlimited})

\* DialListener.Close: return
DLClose ==
  /\ DLFrame
  /\ ~dlClosed
  /\ dlClosed' = TRUE
  /\ ev' = Ev("DLClose", "nil", 0)
  /\ UNCHANGED <<dlLeft, established, active, pool, dacc, wrk>>

\* Accept: the left operand of lis.established > lis.active is loaded.
\* (spare: whether a spare connection exists at that moment.)
DLAcceptLoad(a) ==
  /\ DLFrame
  /\ a <= loops
  /\ dacc[a].pc = "idle"
  /\ dacc' = [dacc EXCEPT ![a] = [pc |-> "cmp", est |-> established,
                                       spare |-> established > active]]
  /\ ev' = NoEv
  /\ UNCHANGED <<dlLeft, established, active, dlClosed, pool, wrk>>

\* if lis.established > lis.active
\* (The first is the comparison the other way round.)
HasSpareInverted(est, act) == est <= act
HasSpare(est, act) == est > act

\* Accept: lis.active is loaded and compared; with a free connection Accept
\* sleeps and returns nil, tempErr{}.
DLAcceptCompare(a) ==
  /\ DLFrame
  /\ dacc[a].pc = "cmp"
  /\ \/ /\ HasSpare(dacc[a].est, active)
        /\ dacc' = [dacc EXCEPT ![a] = IdleDAcc]
        /\ ev' = Ev("DLAccept", "spare", 0)
     \/ /\ ~HasSpare(dacc[a].est, active)
        /\ dacc' = [dacc EXCEPT ![a].pc = "dial", ![a].est = 0]
        /\ ev' = NoEv
  /\ UNCHANGED <<dlLeft, established, active, dlClosed, pool, wrk>>

\* conn.Write([]byte(lis.Name)) on the connection just dialled, its result
\* dropped: the peer has got the name ("sent"), or the Write has failed
\* ("failed"; Write returns an error whenever it wrote less than the name).
\* (The first writes nothing.)
WriteNothing == {"none"}
WriteName == {"sent", "failed"}

\* Accept: net.Dial; on an error sleep and return nil, tempErr{}; otherwise
\* conn.Write([]byte(lis.Name)), atomic.AddInt32(&lis.established, 1) and
\* return &notifyOnNetErr{Conn: conn, L: lis}, nil.
DLAcceptDial(a) ==
  /\ DLFrame
  /\ dacc[a].pc = "dial"
  /\ \/ /\ ev' = Ev("DLAccept", "unreachable", 0)
        /\ UNCHANGED <<pool, established>>
     \/ /\ Len(pool) < (IF dlLeft = Unlimited THEN MaxPooled ELSE MaxPooledOne)
        /\ \E sent \in WriteName :
             pool' = Append(pool, [NewPooled EXCEPT !.name = sent, !.delivered = TRUE])
        /\ established' = established + 1
        /\ ev' = Ev("DLAccept", "conn", Len(pool) + 1)
  /\ dacc' = [dacc EXCEPT ![a] = IdleDAcc]
  /\ UNCHANGED <<dlLeft, active, dlClosed, wrk>>

\* func (tempErr) Temporary() bool { return true }: of what Accept returns,
\* tempErr{} after finding a spare connection and after a failed dial;
\* io.EOF and the nil error of a delivered connection are no tempErr.
Temporary(kind) == kind \in {"spare", "unreachable"}

\* (err != nil && !ok) || (ok && !e.Temporary()): err is nil, a temporary
\* net.Error ("temp"), any other net.Error ("term"), or an error that is no
\* net.Error, such as io.EOF ("eof").
\* (The first takes no error for terminal.)
IsTerminalNever(err) == FALSE
\* (The next takes every error for terminal.)
IsTerminalAny(err) == err # "nil"
IsTerminal(err) == err \in {"term", "eof"}

\* What conn.Conn.Read / conn.Conn.Write may return on connection c: a closed
\* network connection only fails; an open one returns bytes, or no byte with
\* or without an error.  A connection of the pool whose Write of the Name
\* has failed is broken (no deadline is set, so that failure was no
\* timeout): every later Read and Write on it fails.
ReadResults(c) ==
  IF c.closed THEN {[n |-> 0, err |-> "term"]}
  ELSE {[n |-> 1, err |-> "nil"]} \cup
       {[n |-> 0, err |-> e] : e \in {"nil", "temp", "term", "eof"}}
WriteResults(c) ==
  IF c.closed THEN {[n |-> 0, err |-> "term"]}
  ELSE {[n |-> 1, err |-> "nil"]} \cup {[n |-> 0, err |-> e] : e \in {"temp", "term"}}
PoolReadResults(c) ==
  IF c.name = "failed" THEN {[n |-> 0, err |-> "term"]} ELSE ReadResults(c)
PoolWriteResults(c) ==
  IF c.name = "failed" THEN {[n |-> 0, err |-> "term"]} ELSE WriteResults(c)

\* The calls the upper layer still makes on delivered connections, after
\* one more of them.
CallsAfter(left) == IF left = Unlimited THEN Unlimited ELSE left - 1

Delivered == {c \in 1..Len(pool) : pool[c].delivered}

\* The goroutines that use the delivered connections.
Users == {w \in Workers : w <= MaxRoutines - loops}

\* The call a goroutine makes on a delivered connection returns n, err.
Return(w, op, c, n, err) ==
  /\ wrk' = [wrk EXCEPT ![w] = IdleWrk]
  /\ ev' = [Ev(op, err, c) EXCEPT !.n = n]

\* Read: if n == 0 { return n, err }
\* (The first takes no read for empty.)
EmptyNever(n) == FALSE
Empty(n) == n = 0

\* notifyOnNetErr.Read up to its first sync.Once
ConnRead(w) ==
  /\ DLFrame
  /\ w \in Users
  /\ wrk[w].pc = "idle"
  /\ \E c \in Delivered : \E r \in PoolReadResults(pool[c]) :
       IF IsTerminal(r.err)
       THEN wrk' = [wrk EXCEPT ![w] = [pc |-> "onceErr", conn |-> c, op |-> "Read",
                                        n |-> r.n, err |-> r.err]] /\ ev' = NoEv
       ELSE IF Empty(r.n)
       THEN Return(w, "Read", c, r.n, r.err)
       ELSE wrk' = [wrk EXCEPT ![w] = [pc |-> "onceRead", conn |-> c, op |-> "Read",
                                        n |-> r.n, err |-> r.err]] /\ ev' = NoEv
  /\ dlLeft # 0 /\ dlLeft' = CallsAfter(dlLeft)
  /\ UNCHANGED <<established, active, dlClosed, pool, dacc>>

\* notifyOnNetErr.Write up to its sync.Once
ConnWrite(w) ==
  /\ DLFrame
  /\ w \in Users
  /\ wrk[w].pc = "idle"
  /\ \E c \in Delivered : \E r \in PoolWriteResults(pool[c]) :
       IF IsTerminal(r.err)
       THEN wrk' = [wrk EXCEPT ![w] = [pc |-> "onceErr", conn |-> c, op |-> "Write",
                                        n |-> r.n, err |-> r.err]] /\ ev' = NoEv
       ELSE Return(w, "Write", c, r.n, r.err)
  /\ dlLeft # 0 /\ dlLeft' = CallsAfter(dlLeft)
  /\ UNCHANGED <<established, active, dlClosed, pool, dacc>>

\* notifyOnNetErr.Close up to its sync.Once
ConnClose(w) ==
  /\ DLFrame
  /\ w \in Users
  /\ wrk[w].pc = "idle"
  /\ \E c \in Delivered :
       wrk' = [wrk EXCEPT ![w] = [pc |-> "onceErr", conn |-> c, op |-> "Close",
                                   n |-> 0, err |-> "nil"]]
  /\ ev' = NoEv
  /\ dlLeft # 0 /\ dlLeft' = CallsAfter(dlLeft)
  /\ UNCHANGED <<established, active, dlClosed, pool, dacc>>

\* sync.Once.Do runs f only for the first caller; a caller arriving while f
\* runs waits for it to finish.
\* (The first runs f for every caller that finds no other inside.)
OnceRunsAgain(once) == once # "running"
OnceRuns(once) == once = "new"

\* After conn.onceErr.Do: Read and Write return n, err; Close goes on to
\* conn.Conn.Close().
AfterOnceErr(w) ==
  IF wrk[w].op = "Close"
  THEN wrk' = [wrk EXCEPT ![w].pc = "close"] /\ ev' = NoEv
  ELSE Return(w, wrk[w].op, wrk[w].conn, wrk[w].n, wrk[w].err)

\* conn.onceErr.Do(func() { atomic.AddInt32(&conn.L.established, -1) ...
OnceErrDo(w) ==
  /\ DLFrame
  /\ wrk[w].pc = "onceErr"
  /\ LET c == wrk[w].conn IN
       \/ /\ OnceRuns(pool[c].onceErr)
          /\ pool' = [pool EXCEPT ![c].onceErr = "running", ![c].decs = @ + 1]
          /\ established' = established - 1
          /\ wrk' = [wrk EXCEPT ![w].pc = "errFlag"]
          /\ ev' = NoEv
       \/ /\ ~OnceRuns(pool[c].onceErr)
          /\ pool[c].onceErr = "done"
          /\ AfterOnceErr(w)
          /\ UNCHANGED <<pool, established>>
  /\ UNCHANGED <<dlLeft, active, dlClosed, dacc>>

\* ... if conn.active {
ErrFlag(w) ==
  /\ DLFrame
  /\ wrk[w].pc = "errFlag"
  /\ LET c == wrk[w].conn IN
       \/ /\ pool[c].flag
          /\ wrk' = [wrk EXCEPT ![w].pc = "errAct"]
          /\ ev' = NoEv
          /\ UNCHANGED pool
       \/ /\ ~pool[c].flag
          /\ pool' = [pool EXCEPT ![c].onceErr = "done"]
          /\ AfterOnceErr(w)
  /\ UNCHANGED <<dlLeft, established, active, dlClosed, dacc>>

\* ... atomic.AddInt32(&conn.L.active, -1) } })
ErrAct(w) ==
  /\ DLFrame
  /\ wrk[w].pc = "errAct"
  /\ active' = active - 1
  /\ pool' = [pool EXCEPT ![wrk[w].conn].onceErr = "done"]
  /\ AfterOnceErr(w)
  /\ UNCHANGED <<dlLeft, established, dlClosed, dacc>>

\* Close: return conn.Conn.Close()
ConnCloseConn(w) ==
  /\ DLFrame
  /\ wrk[w].pc = "close"
  /\ pool' = [pool EXCEPT ![wrk[w].conn].closed = TRUE]
  /\ Return(w, "Close", wrk[w].conn, 0, "nil")
  /\ UNCHANGED <<dlLeft, established, active, dlClosed, dacc>>

\* Read: conn.onceRead.Do(func() { conn.active = true ...
OnceReadDo(w) ==
  /\ DLFrame
  /\ wrk[w].pc = "onceRead"
  /\ LET c == wrk[w].conn IN
       \/ /\ OnceRuns(pool[c].onceRead)
          /\ pool' = [pool EXCEPT ![c].onceRead = "running", ![c].flag = TRUE]
          /\ wrk' = [wrk EXCEPT ![w].pc = "readAct"]
          /\ ev' = NoEv
       \/ /\ ~OnceRuns(pool[c].onceRead)
          /\ pool[c].onceRead = "done"
          /\ Return(w, "Read", c, wrk[w].n, wrk[w].err)
          /\ UNCHANGED pool
  /\ UNCHANGED <<dlLeft, established, active, dlClosed, dacc>>

\* ... atomic.AddInt32(&conn.L.active, 1) }); return n, err
ReadAct(w) ==
  /\ DLFrame
  /\ wrk[w].pc = "readAct"
  /\ active' = active + 1
  /\ pool' = [pool EXCEPT ![wrk[w].conn].onceRead = "done", ![wrk[w].conn].incs = @ + 1]
  /\ Return(w, "Read", wrk[w].conn, wrk[w].n, wrk[w].err)
  /\ UNCHANGED <<dlLeft, established, dlClosed, dacc>>

NextDL ==
  \/ DLClose
  \/ \E a \in Acceptors :
       DLAcceptLoad(a) \/ DLAcceptCompare(a) \/ DLAcceptDial(a)
  \/ \E w \in Workers :
       \/ ConnRead(w) \/ ConnWrite(w) \/ ConnClose(w)
       \/ OnceErrDo(w) \/ ErrFlag(w) \/ ErrAct(w) \/ ConnCloseConn(w)
       \/ OnceReadDo(w) \/ ReadAct(w)

\* ------------------------------------------------ part_001 PrefaceListener
P1Frame ==
  rev = "PL1" /\ p1panic = "" /\ UNCHANGED <<rev, loops, plVars, dlVars, d1Vars, stVars, wlVars>>

\* http2.ClientPreface: "PRI * HTTP/2.0\r\n\r\nSM\r\n\r\n"
ClientPreface ==
  <<80, 82, 73, 32, 42, 32, 72, 84, 84, 80, 47, 50, 46, 48,
    13, 10, 13, 10, 83, 77, 13, 10, 13, 10>>

\* What a peer may send on a fresh connection: the client preface with or
\* without application bytes, a server's SETTINGS frame, the beginning of
\* the client preface and then something else or nothing, or nothing at all.
P1Streams ==
  {ClientPreface \o AppBytes(MaxTail), ClientPreface,
   <<0, 0, 0, 4>>, SubSeq(ClientPreface, 1, 2) \o <<4>>,
   SubSeq(ClientPreface, 1, 2), <<>>}

\* The preface loop of Accept from its i-th turn on, `consumed` being what
\* it has appended so far: conn.Read(nextByte) fails when the peer's bytes
\* are used up; a byte read is appended before it is compared.
RECURSIVE ReadPreface(_, _, _)
ReadPreface(s, i, consumed) ==
  IF i > Len(ClientPreface) THEN [isClient |-> TRUE, consumed |-> consumed]
  ELSE IF i > Len(s) THEN [isClient |-> FALSE, consumed |-> consumed]
  ELSE IF s[i] # ClientPreface[i]
       THEN [isClient |-> FALSE, consumed |-> Append(consumed, s[i])]
  ELSE ReadPreface(s, i + 1, Append(consumed, s[i]))

\* conn = readerConn{conn, io.MultiReader(io.MultiReader(
\*          bytes.NewBuffer(consumed), r), conn)}
\* (The first forgets the last consumed byte.)
P1ReconstructShort(s, consumed) ==
  [addr |-> "", sent |-> s, pos |-> Len(consumed),
   replay |-> SubSeq(consumed, 1, Len(consumed) - 1), wrapped |-> TRUE]
P1Reconstruct(s, consumed) ==
  [addr |-> "", sent |-> s, pos |-> Len(consumed), replay |-> consumed, wrapped |-> TRUE]

\* A connection the listener keeps: the readerConn, whether it is closed,
\* where the listener has put it and how many Dial calls have returned it.
P1Conn(s, consumed) ==
  [val |-> P1Reconstruct(s, consumed), closed |-> FALSE, fate |-> "held", claims |-> 0]
P1Returned == [val |-> NoConn, closed |-> FALSE, fate |-> "client", claims |-> 0]

IdleP1Acc == [pc |-> "idle", conn |-> 0]
InitP1 ==
  /\ p1init = FALSE
  /\ p1ch = [closed |-> FALSE, buf |-> <<>>, cleanup |-> "new"]
  /\ p1lis = FALSE
  /\ p1conns = <<>>
  /\ p1acc = [a \in Acceptors |-> IdleP1Acc]
  /\ p1dial = [d \in Dialers |-> "idle"]
  /\ p1cls = [k \in Closers |-> "idle"]
  /\ p1panic = ""

\* Accept: l.Listener.Accept failed: return nil, err
P1AcceptErr(a) ==
  /\ P1Frame
  /\ a <= loops
  /\ p1acc[a].pc = "idle"
  /\ p1lis
  /\ ev' = Ev("Accept", "err", 0)
  /\ UNCHANGED p1Vars

\* Accept up to its first select: l.Listener.Accept, the preface loop, the
\* reconstruction, and for a connection that is no client's l.init.Do.
P1AcceptConn(a) ==
  /\ P1Frame
  /\ a <= loops
  /\ p1acc[a].pc = "idle"
  /\ ~p1lis
  /\ Len(p1conns) < MaxConns
  /\ \E s \in P1Streams :
       LET r == ReadPreface(s, 1, <<>>)
           id == Len(p1conns) + 1
       IN  \/ /\ r.isClient
              /\ p1conns' = Append(p1conns, P1Returned)
              /\ ev' = [Ev("Accept", "conn", id) EXCEPT !.val = P1Reconstruct(s, r.consumed)]
              /\ UNCHANGED <<p1acc, p1init>>
           \/ /\ ~r.isClient
              /\ p1conns' = Append(p1conns, P1Conn(s, r.consumed))
              /\ p1acc' = [p1acc EXCEPT ![a] = [pc |-> "drain", conn |-> id]]
              /\ p1init' = TRUE
              /\ ev' = NoEv
  /\ UNCHANGED <<p1ch, p1lis, p1dial, p1cls, p1panic>>

\* Accept, first select: case discard := <-l.ch: discard.Close().  A closed
\* and empty channel yields nil, and Close on the nil net.Conn panics.
P1StoreDrain(a) ==
  /\ P1Frame
  /\ p1acc[a].pc = "drain"
  /\ \/ /\ p1ch.buf # <<>>
        /\ p1ch' = [p1ch EXCEPT !.buf = Tail(@)]
        /\ p1conns' = [p1conns EXCEPT ![Head(p1ch.buf)].closed = TRUE]
        /\ p1acc' = [p1acc EXCEPT ![a].pc = "store"]
        /\ UNCHANGED p1panic
     \/ /\ p1ch.buf = <<>> /\ p1ch.closed
        /\ p1panic' = "nil pointer dereference"
        /\ UNCHANGED <<p1ch, p1conns, p1acc>>
     \/ /\ p1ch.buf = <<>> /\ ~p1ch.closed
        /\ p1acc' = [p1acc EXCEPT ![a].pc = "store"]
        /\ UNCHANGED <<p1ch, p1conns, p1panic>>
  /\ ev' = NoEv
  /\ UNCHANGED <<p1init, p1lis, p1dial, p1cls>>

\* Accept, second select: case l.ch <- conn, default: conn.Close(); then
\* return l.Accept().  A send on a closed channel panics.
P1StorePut(a) ==
  /\ P1Frame
  /\ p1acc[a].pc = "store"
  /\ LET c == p1acc[a].conn IN
       \/ /\ p1ch.closed
          /\ p1panic' = "send on closed channel"
          /\ UNCHANGED <<p1ch, p1conns, p1acc>>
       \/ /\ ~p1ch.closed /\ CanSend(p1ch.buf)
          /\ p1ch' = [p1ch EXCEPT !.buf = Append(@, c)]
          /\ p1conns' = [p1conns EXCEPT ![c].fate = "slot"]
          /\ p1acc' = [p1acc EXCEPT ![a] = IdleP1Acc]
          /\ UNCHANGED p1panic
       \/ /\ ~p1ch.closed /\ ~CanSend(p1ch.buf)
          /\ p1conns' = [p1conns EXCEPT ![c].fate = "refused", ![c].closed = TRUE]
          /\ p1acc' = [p1acc EXCEPT ![a] = IdleP1Acc]
          /\ UNCHANGED <<p1ch, p1panic>>
  /\ ev' = NoEv
  /\ UNCHANGED <<p1init, p1lis, p1dial, p1cls>>

\* Close: l.init.Do(...); err := l.Listener.Close()
P1Close(k) ==
  /\ P1Frame
  /\ p1cls[k] = "idle"
  /\ p1init' = TRUE
  /\ p1lis' = TRUE
  /\ p1cls' = [p1cls EXCEPT ![k] = "cleanup"]
  /\ ev' = NoEv
  /\ UNCHANGED <<p1ch, p1conns, p1acc, p1dial, p1panic>>

\* Close: l.cleanup.Do(func() { close(l.ch) }); return err.  The body is
\* the one close, which panics on a channel that is closed already.
P1Cleanup(k) ==
  /\ P1Frame
  /\ p1cls[k] = "cleanup"
  /\ \/ /\ OnceRuns(p1ch.cleanup)
        /\ p1ch' = [p1ch EXCEPT !.closed = TRUE, !.cleanup = "done"]
        /\ p1panic' = IF p1ch.closed THEN "close of closed channel" ELSE p1panic
        /\ p1cls' = [p1cls EXCEPT ![k] = "idle"]
        /\ ev' = IF p1ch.closed THEN NoEv ELSE Ev("Close", "nil", 0)
     \/ /\ ~OnceRuns(p1ch.cleanup)
        /\ p1cls' = [p1cls EXCEPT ![k] = "idle"]
        /\ ev' = Ev("Close", "nil", 0)
        /\ UNCHANGED <<p1ch, p1panic>>
  /\ UNCHANGED <<p1init, p1lis, p1conns, p1acc, p1dial>>

\* Dial up to its select: l.init.Do(...)
P1DialStart(d) ==
  /\ P1Frame
  /\ p1dial[d] = "idle"
  /\ p1init' = TRUE
  /\ p1dial' = [p1dial EXCEPT ![d] = "wait"]
  /\ ev' = NoEv
  /\ UNCHANGED <<p1ch, p1lis, p1conns, p1acc, p1cls, p1panic>>

\* Dial: case conn := <-l.ch: a buffered connection, or nil from the closed
\* and empty channel, for which Dial returns the "dialer closing" error.
P1DialRecv(d) ==
  /\ P1Frame
  /\ p1dial[d] = "wait"
  /\ \/ /\ p1ch.buf # <<>>
        /\ p1ch' = [p1ch EXCEPT !.buf = AfterRecv(@)]
        /\ p1conns' = [p1conns EXCEPT ![Head(p1ch.buf)].claims = @ + 1]
        /\ ev' = [Ev("Dial", "conn", Head(p1ch.buf)) EXCEPT
                    !.val = p1conns[Head(p1ch.buf)].val]
     \/ /\ p1ch.buf = <<>> /\ p1ch.closed
        /\ ev' = Ev("Dial", "closing", 0)
        /\ UNCHANGED <<p1ch, p1conns>>
  /\ p1dial' = [p1dial EXCEPT ![d] = "idle"]
  /\ UNCHANGED <<p1init, p1lis, p1acc, p1cls, p1panic>>

\* Dial: case <-time.After(dur): return nil, context.DeadlineExceeded
P1DialTimeout(d) ==
  /\ P1Frame
  /\ p1dial[d] = "wait"
  /\ p1dial' = [p1dial EXCEPT ![d] = "idle"]
  /\ ev' = Ev("Dial", "deadline", 0)
  /\ UNCHANGED <<p1init, p1ch, p1lis, p1conns, p1acc, p1cls, p1panic>>

NextP1 ==
  \/ \E a \in Acceptors :
       P1AcceptErr(a) \/ P1AcceptConn(a) \/ P1StoreDrain(a) \/ P1StorePut(a)
  \/ \E k \in Closers : P1Close(k) \/ P1Cleanup(k)
  \/ \E d \in Dialers : P1DialStart(d) \/ P1DialRecv(d) \/ P1DialTimeout(d)

\* --------------------------------------------------- part_001 DialListener
D1Frame == rev = "DL1" /\ UNCHANGED <<rev, loops, plVars, dlVars, p1Vars, stVars, wlVars>>

\* &notifyOnNetErr{Conn: conn, C: lis.redialC} around a connection the
\* dialer has just returned.  closed: the connection has been closed.
D1Pooled == [once |-> "new", closed |-> FALSE]

InitD1 ==
  /\ d1closing = "nil"
  /\ d1redial = 0
  /\ d1conn = 0
  /\ d1closed = FALSE
  /\ d1pool = <<>>
  /\ d1acc = [a \in Acceptors |-> "idle"]
  /\ d1wrk = [w \in Workers |-> IdleWrk]

\* Accept: under closeMu, if lis.closing == nil make closing and redialC and
\* put the one token into redialC.
D1AcceptInit(a) ==
  /\ D1Frame
  /\ a <= loops
  /\ d1acc[a] = "idle"
  /\ IF d1closing = "nil"
     THEN d1closing' = "open" /\ d1redial' = ChanCap
     ELSE UNCHANGED <<d1closing, d1redial>>
  /\ d1acc' = [d1acc EXCEPT ![a] = "outer"]
  /\ ev' = NoEv
  /\ UNCHANGED <<d1conn, d1closed, d1pool, d1wrk>>

\* Accept, outer select: case <-lis.closing: return nil, io.EOF; default:
D1AcceptOuter(a) ==
  /\ D1Frame
  /\ d1acc[a] = "outer"
  /\ \/ /\ d1closing = "closed"
        /\ d1acc' = [d1acc EXCEPT ![a] = "idle"]
        /\ ev' = Ev("DLAccept", "eof", 0)
     \/ /\ d1closing # "closed"
        /\ d1acc' = [d1acc EXCEPT ![a] = "inner"]
        /\ ev' = NoEv
  /\ UNCHANGED <<d1closing, d1redial, d1conn, d1closed, d1pool, d1wrk>>

\* case <-lis.redialC: the tokens the receive leaves in redialC.
\* (The first leaves the token it has received.)
TokensAfterRecvKeep(n) == n
TokensAfterRecv(n) == n - 1

\* Accept, inner select: case <-lis.closing: return nil, io.EOF;
\* case <-lis.redialC: go on to dial.  With both ready either is taken.
D1AcceptInner(a) ==
  /\ D1Frame
  /\ d1acc[a] = "inner"
  /\ \/ /\ d1closing = "closed"
        /\ d1acc' = [d1acc EXCEPT ![a] = "idle"]
        /\ ev' = Ev("DLAccept", "eof", 0)
        /\ UNCHANGED d1redial
     \/ /\ d1redial > 0
        /\ d1redial' = TokensAfterRecv(d1redial)
        /\ d1acc' = [d1acc EXCEPT ![a] = "dial"]
        /\ ev' = NoEv
  /\ UNCHANGED <<d1closing, d1conn, d1closed, d1pool, d1wrk>>

\* An Accept call inside its connect.  Beside it a goroutine waits for
\* ctx.Done() or for lis.closing, and calls cancel() when lis.closing is
\* closed: "dialx" is the connect during which that has happened.
InDial(pc) == pc \in {"dial", "dialx"}

\* Accept: DialContext(context.TODO(), ...), which the cancel of ctx does
\* not reach; on success lis.conn = conn and return the notifyOnNetErr.
D1AcceptDial(a) ==
  /\ D1Frame
  /\ InDial(d1acc[a])
  /\ \/ /\ d1acc' = [d1acc EXCEPT ![a] = "giveback"]
        /\ ev' = NoEv
        /\ UNCHANGED <<d1pool, d1conn>>
     \/ /\ Len(d1pool) < MaxPooled
        /\ d1pool' = Append(d1pool, D1Pooled)
        /\ d1conn' = Len(d1pool) + 1
        /\ d1acc' = [d1acc EXCEPT ![a] = "idle"]
        /\ ev' = Ev("DLAccept", "conn", Len(d1pool) + 1)
  /\ UNCHANGED <<d1closing, d1redial, d1closed, d1wrk>>

\* (A failed dial that returns without putting the token back.)
D1AcceptGiveBackKeeps(a) ==
  /\ D1Frame
  /\ d1acc[a] = "giveback"
  /\ d1acc' = [d1acc EXCEPT ![a] = "idle"]
  /\ ev' = Ev("DLAccept", "unreachable", 0)
  /\ UNCHANGED <<d1closing, d1redial, d1conn, d1closed, d1pool, d1wrk>>

\* Accept after a failed dial: lis.redialC <- struct{}{}; return nil, tempErr{err}
D1AcceptGiveBack(a) ==
  /\ D1Frame
  /\ d1acc[a] = "giveback"
  /\ CanSend([i \in 1..d1redial |-> 0])
  /\ d1redial' = d1redial + 1
  /\ d1acc' = [d1acc EXCEPT ![a] = "idle"]
  /\ ev' = Ev("DLAccept", "unreachable", 0)
  /\ UNCHANGED <<d1closing, d1conn, d1closed, d1pool, d1wrk>>

\* DialListener.Close: under closeMu, return if closing is closed, else
\* close it unless it is nil; then close and forget lis.conn, if any.
\* Closing lis.closing wakes the goroutines that cancel the ctx of the
\* Accept calls inside their connect.
D1Close ==
  /\ D1Frame
  /\ d1closed' = TRUE
  /\ \/ /\ d1closing = "closed"
        /\ UNCHANGED <<d1closing, d1conn, d1pool>>
     \/ /\ d1closing # "closed"
        /\ d1closing' = IF d1closing = "open" THEN "closed" ELSE d1closing
        /\ d1conn' = 0
        /\ d1pool' = IF d1conn = 0 THEN d1pool
                     ELSE [d1pool EXCEPT ![d1conn].closed = TRUE]
  /\ d1acc' = [a \in Acceptors |->
                 IF d1acc[a] = "dial" /\ d1closing = "open" THEN "dialx" ELSE d1acc[a]]
  /\ ev' = Ev("DLClose", "nil", 0)
  /\ UNCHANGED <<d1redial, d1wrk>>

\* The call a goroutine makes on a delivered connection returns n, err.
D1Return(w, op, c, n, err) ==
  /\ d1wrk' = [d1wrk EXCEPT ![w] = IdleWrk]
  /\ ev' = [Ev(op, err, c) EXCEPT !.n = n]

\* notifyOnNetErr.Read and notifyOnNetErr.Write up to conn.once.Do
D1ConnRead(w) ==
  /\ D1Frame
  /\ w \in Users
  /\ d1wrk[w].pc = "idle"
  /\ \E c \in 1..Len(d1pool) : \E r \in ReadResults(d1pool[c]) :
       IF IsTerminal(r.err)
       THEN d1wrk' = [d1wrk EXCEPT ![w] = [pc |-> "once", conn |-> c, op |-> "Read",
                                            n |-> r.n, err |-> r.err]] /\ ev' = NoEv
       ELSE D1Return(w, "Read", c, r.n, r.err)
  /\ UNCHANGED <<d1closing, d1redial, d1conn, d1closed, d1pool, d1acc>>

D1ConnWrite(w) ==
  /\ D1Frame
  /\ w \in Users
  /\ d1wrk[w].pc = "idle"
  /\ \E c \in 1..Len(d1pool) : \E r \in WriteResults(d1pool[c]) :
       IF IsTerminal(r.err)
       THEN d1wrk' = [d1wrk EXCEPT ![w] = [pc |-> "once", conn |-> c, op |-> "Write",
                                            n |-> r.n, err |-> r.err]] /\ ev' = NoEv
       ELSE D1Return(w, "Write", c, r.n, r.err)
  /\ UNCHANGED <<d1closing, d1redial, d1conn, d1closed, d1pool, d1acc>>

\* Close on a delivered connection: notifyOnNetErr defines none, so it is
\* the embedded net.Conn's.
D1ConnClose(w) ==
  /\ D1Frame
  /\ w \in Users
  /\ d1wrk[w].pc = "idle"
  /\ \E c \in 1..Len(d1pool) :
       /\ d1pool' = [d1pool EXCEPT ![c].closed = TRUE]
       /\ D1Return(w, "Close", c, 0, "nil")
  /\ UNCHANGED <<d1closing, d1redial, d1conn, d1closed, d1acc>>

\* conn.once.Do(func() { conn.C <- struct{}{} }): entering it
D1OnceDo(w) ==
  /\ D1Frame
  /\ d1wrk[w].pc = "once"
  /\ LET c == d1wrk[w].conn IN
       \/ /\ OnceRuns(d1pool[c].once)
          /\ d1pool' = [d1pool EXCEPT ![c].once = "running"]
          /\ d1wrk' = [d1wrk EXCEPT ![w].pc = "send"]
          /\ ev' = NoEv
       \/ /\ ~OnceRuns(d1pool[c].once)
          /\ d1pool[c].once = "done"
          /\ D1Return(w, d1wrk[w].op, c, d1wrk[w].n, d1wrk[w].err)
          /\ UNCHANGED d1pool
  /\ UNCHANGED <<d1closing, d1redial, d1conn, d1closed, d1acc>>

\* conn.C <- struct{}{}, which waits for room in redialC; return n, err
D1OnceSend(w) ==
  /\ D1Frame
  /\ d1wrk[w].pc = "send"
  /\ CanSend([i \in 1..d1redial |-> 0])
  /\ d1redial' = d1redial + 1
  /\ d1pool' = [d1pool EXCEPT ![d1wrk[w].conn].once = "done"]
  /\ D1Return(w, d1wrk[w].op, d1wrk[w].conn, d1wrk[w].n, d1wrk[w].err)
  /\ UNCHANGED <<d1closing, d1conn, d1closed, d1acc>>

NextD1 ==
  \/ D1Close
  \/ \E a \in Acceptors :
       \/ D1AcceptInit(a) \/ D1AcceptOuter(a) \/ D1AcceptInner(a)
       \/ D1AcceptDial(a) \/ D1AcceptGiveBack(a)
  \/ \E w \in Workers :
       \/ D1ConnRead(w) \/ D1ConnWrite(w) \/ D1ConnClose(w)
       \/ D1OnceDo(w) \/ D1OnceSend(w)

\* ------------------------------------------------ part_001 SplitTLSListener
STFrame == rev = "ST" /\ UNCHANGED <<rev, loops, plVars, dlVars, p1Vars, d1Vars, wlVars>>

\* ch := make(chan net.Conn, 100) in SplitSNI
QueueCap == 100

\* The names SplitSNI is called with, and the server names inbound TLS
\* connections have negotiated.
SplitNames == {"svcA", "svcB"}
ServerNames == {"svcA", "svcC"}

\* What the wrapped listener hands out: a connection that is no *tls.Conn, a
\* *tls.Conn whose Handshake fails, or one whose Handshake succeeds with
\* server name sni.  closed: Close has been called on it; seq: when peers
\* open MaxInbound connections with a name in SplitNames, these are numbered
\* in the order in which l.Listener.Accept returns them; any other
\* connection has 0.
STConn(tls, hs, sni) == [tls |-> tls, hs |-> hs, sni |-> sni, closed |-> FALSE, seq |-> 0]
Inbound ==
  {STConn(FALSE, FALSE, ""), STConn(TRUE, FALSE, "")} \cup
  {STConn(TRUE, TRUE, n) : n \in ServerNames}

\* A goroutine that calls Accept, by itself or (drop) as DropUnsplit does.
IdleSTAcc == [pc |-> "idle", conn |-> STConn(FALSE, FALSE, ""), drop |-> FALSE]

InitST ==
  /\ stReg = <<>>
  /\ stQ = <<>>
  /\ stLeft \in (IF rev = "ST" THEN {Unlimited, MaxInbound} ELSE {Unlimited})
  /\ stOut = <<>>
  /\ stLis = FALSE
  /\ stAcc = [a \in Acceptors |-> IdleSTAcc]

\* What the last step did with a connection: ev.val is the connection,
\* ev.chan the child it went to.
STEv(op, kind, c, k) == [Ev(op, kind, 0) EXCEPT !.val = c, !.chan = k]

\* SplitSNI: a new channel and, under matchersMu, a new matcher at the end
\* of l.matchers; returns chanListener{l.Listener, ch}.
SplitSNI(sni) ==
  /\ STFrame
  /\ Len(stReg) < MaxSplits
  /\ stReg' = Append(stReg, sni)
  /\ stQ' = Append(stQ, <<>>)
  /\ stOut' = Append(stOut, 0)
  /\ ev' = STEv("SplitSNI", "nil", NoConn, Len(stReg) + 1)
  /\ UNCHANGED <<stLeft, stLis, stAcc>>

\* Close of the splitter or of a child (both embed the wrapped listener,
\* whose Close is promoted).
STClose ==
  /\ STFrame
  /\ ~stLis
  /\ stLis' = TRUE
  /\ ev' = Ev("Close", "nil", 0)
  /\ UNCHANGED <<stReg, stQ, stLeft, stOut, stAcc>>

\* The goroutines that may run DropUnsplit: one of those that call Accept.
Droppers == {a \in Acceptors : a = 1}

\* go lis.DropUnsplit(): the goroutine begins with conn, err := l.Accept()
DropUnsplit(a) ==
  /\ STFrame
  /\ a \in Droppers
  /\ stAcc[a].pc = "idle" /\ ~stAcc[a].drop
  /\ stAcc' = [stAcc EXCEPT ![a].drop = TRUE]
  /\ ev' = NoEv
  /\ UNCHANGED <<stReg, stQ, stLeft, stOut, stLis>>

\* Accept: l.Listener.Accept failed: return nil, err; DropUnsplit, having
\* got that error, returns.
STAcceptErr(a) ==
  /\ STFrame
  /\ a <= loops
  /\ stAcc[a].pc = "idle"
  /\ stLis
  /\ stAcc' = [stAcc EXCEPT ![a] = IdleSTAcc]
  /\ ev' = Ev("STAccept", "err", 0)
  /\ UNCHANGED <<stReg, stQ, stLeft, stOut, stLis>>

\* tlsConn.Close() after a failed Handshake.
\* (The first leaves the connection open.)
TLSCloseNot(c) == c
TLSClose(c) == [c EXCEPT !.closed = TRUE]

\* Accept returns conn, nil to its caller: the goroutine is free again, or
\* in DropUnsplit it has conn.Close() before it.
STReturned(a, c) ==
  IF stAcc[a].drop THEN [pc |-> "close", conn |-> c, drop |-> TRUE] ELSE IdleSTAcc

\* Accept from l.Listener.Accept to l.matchersMu.Lock(): a connection that
\* is no *tls.Conn is returned; after a failed Handshake tlsConn.Close() and
\* continue CatchAllListener.
STAcceptConn(a) ==
  /\ STFrame
  /\ a <= loops
  /\ stAcc[a].pc = "idle"
  /\ ~stLis
  /\ \E c \in Inbound :
       \/ /\ ~c.tls
          /\ ev' = STEv("STAccept", "conn", c, 0)
          /\ stAcc' = [stAcc EXCEPT ![a] = STReturned(a, c)]
          /\ UNCHANGED stLeft
       \/ /\ c.tls /\ ~c.hs
          /\ ev' = STEv("STLoop", "handshake", TLSClose(c), 0)
          /\ UNCHANGED <<stAcc, stLeft>>
       \/ /\ c.tls /\ c.hs /\ (c.sni \notin SplitNames \/ stLeft = Unlimited)
          /\ stAcc' = [stAcc EXCEPT ![a].pc = "match", ![a].conn = c]
          /\ ev' = NoEv
          /\ UNCHANGED stLeft
       \/ /\ c.tls /\ c.hs /\ c.sni \in SplitNames /\ stLeft > 0
          /\ stLeft' = stLeft - 1
          /\ stAcc' = [stAcc EXCEPT ![a].pc = "match",
                                    ![a].conn = [c EXCEPT !.seq = MaxInbound - stLeft + 1]]
          /\ ev' = NoEv
  /\ UNCHANGED <<stReg, stQ, stOut, stLis>>

\* for _, matcher := range l.matchers: the first matcher that returns a
\* channel, 0 if none does.  (The first takes the last such matcher.)
FoundLast(reg, sni) ==
  LET M == {k \in 1..Len(reg) : reg[k] = sni}
  IN  IF M = {} THEN 0 ELSE CHOOSE k \in M : \A j \in M : j <= k
Found(reg, sni) ==
  LET M == {k \in 1..Len(reg) : reg[k] = sni}
  IN  IF M = {} THEN 0 ELSE CHOOSE k \in M : \A j \in M : k <= j

\* case found <- conn: the channel's buffer after the send.
\* (The first puts the connection in front of the waiting ones.)
SentFirst(q, c) == <<c>> \o q
Sent(q, c) == Append(q, c)

\* Accept from l.matchersMu.Lock() on: with a matcher found,
\* select { case found <- conn: default: } and continue CatchAllListener;
\* with none, return conn, nil.
STRoute(a) ==
  /\ STFrame
  /\ stAcc[a].pc = "match"
  /\ LET c == stAcc[a].conn
         k == Found(stReg, c.sni)
     IN  \/ /\ k = 0
            /\ ev' = STEv("STAccept", "conn", c, 0)
            /\ stAcc' = [stAcc EXCEPT ![a] = STReturned(a, c)]
            /\ UNCHANGED stQ
         \/ /\ k # 0 /\ Len(stQ[k]) < QueueCap
            /\ stQ' = [stQ EXCEPT ![k] = Sent(@, c)]
            /\ ev' = STEv("STLoop", "queued", c, k)
            /\ stAcc' = [stAcc EXCEPT ![a].pc = "idle", ![a].conn = IdleSTAcc.conn]
         \/ /\ k # 0 /\ Len(stQ[k]) >= QueueCap
            /\ ev' = STEv("STLoop", "dropped", c, k)
            /\ stAcc' = [stAcc EXCEPT ![a].pc = "idle", ![a].conn = IdleSTAcc.conn]
            /\ UNCHANGED stQ
  /\ UNCHANGED <<stReg, stLeft, stOut, stLis>>

\* DropUnsplit: conn.Close(); conn, err = l.Accept()
\* (The first leaves the connection open.)
DropClosedNot(c) == c
DropClosed(c) == [c EXCEPT !.closed = TRUE]
DropClose(a) ==
  /\ STFrame
  /\ stAcc[a].pc = "close"
  /\ stAcc' = [stAcc EXCEPT ![a].pc = "idle", ![a].conn = IdleSTAcc.conn]
  /\ ev' = STEv("DropUnsplit", "closed", DropClosed(stAcc[a].conn), 0)
  /\ UNCHANGED <<stReg, stQ, stLeft, stOut, stLis>>

\* chanListener.Accept: return <-l.ch, nil.  Only connections with the
\* child's server name are sent into its channel, which is never closed.
ChildAccept(k) ==
  /\ STFrame
  /\ k \in 1..Len(stReg)
  /\ stQ[k] # <<>>
  /\ stQ' = [stQ EXCEPT ![k] = AfterRecv(@)]
  /\ stOut' = [stOut EXCEPT ![k] = IF Head(stQ[k]).seq > @ THEN Head(stQ[k]).seq ELSE @]
  /\ ev' = STEv("ChildAccept", "conn", Head(stQ[k]), k)
  /\ UNCHANGED <<stReg, stLeft, stLis, stAcc>>

NextST ==
  \/ \E sni \in SplitNames : SplitSNI(sni)
  \/ STClose
  \/ \E a \in Acceptors :
       \/ STAcceptErr(a) \/ STAcceptConn(a) \/ STRoute(a)
       \/ DropUnsplit(a) \/ DropClose(a)
  \/ \E k \in 1..MaxSplits : ChildAccept(k)

\* -------------------------- progutil.go PrefaceListener: Addr, SetDeadline
WLFrame ==
  rev = "WL" /\ UNCHANGED <<rev, loops, plVars, dlVars, p1Vars, d1Vars, stVars>>

\* The listeners NewPrefaceListener is given: a *net.TCPListener, or a
\* net.Listener with nothing but Accept, Close and Addr.
InitWL ==
  /\ wlKind \in {"tcp", "plain"}
  /\ wlAddr \in {"127.0.0.1:4000", "127.0.0.1:4001"}
  /\ wlDeadline = 0
  /\ wlClosed = FALSE

\* The same variables in a behaviour that never asks the listener for its
\* address or sets a deadline: one listener stands for any.
AnyWL ==
  /\ wlKind = "tcp"
  /\ wlAddr = "127.0.0.1:4000"
  /\ wlDeadline = 0
  /\ wlClosed = FALSE

\* lis, ok := l.Listener.(interface{ SetDeadline(time.Time) error })
\* (The first takes every listener to have the method.)
HasSetDeadlineAlways(kind) == TRUE
HasSetDeadline(kind) == kind = "tcp"

\* The wrapped listener's own SetDeadline: it fails on a closed listener and
\* sets the deadline otherwise.
InnerSetDeadline(t) ==
  IF wlClosed THEN [err |-> "closed", deadline |-> wlDeadline]
  ELSE [err |-> "nil", deadline |-> t]

\* Addr, promoted from the embedded net.Listener.
WLAddr ==
  /\ WLFrame
  /\ ev' = [Ev("Addr", "nil", 0) EXCEPT !.val = wlAddr]
  /\ UNCHANGED wlVars

\* SetDeadline: errNoDeadlineSupport unless the wrapped listener has the
\* method, else lis.SetDeadline(deadline).
WLSetDeadline(t) ==
  /\ WLFrame
  /\ IF HasSetDeadline(wlKind)
     THEN LET r == InnerSetDeadline(t) IN
            /\ wlDeadline' = r.deadline
            /\ ev' = [Ev("SetDeadline", r.err, 0) EXCEPT !.n = t]
     ELSE /\ ev' = [Ev("SetDeadline", "errNoDeadlineSupport", 0) EXCEPT !.n = t]
          /\ UNCHANGED wlDeadline
  /\ UNCHANGED <<wlKind, wlAddr, wlClosed>>

\* Close, promoted from the embedded net.Listener.
WLClose ==
  /\ WLFrame
  /\ ~wlClosed
  /\ wlClosed' = TRUE
  /\ ev' = Ev("Close", "nil", 0)
  /\ UNCHANGED <<wlKind, wlAddr, wlDeadline>>

NextWL ==
  \/ WLAddr
  \/ \E t \in 1..MaxDeadline : WLSetDeadline(t)
  \/ WLClose

\* ------------------------------------------------------------------- Spec
Init ==
  /\ rev \in {"PL", "DL", "PL1", "DL1", "ST", "WL"}
  /\ ev = NoEv
  /\ loops \in Acceptors
  /\ InitPL
  /\ InitDL
  /\ InitP1
  /\ InitD1
  /\ InitST
  /\ IF rev = "WL" THEN InitWL ELSE AnyWL

Next == NextPL \/ NextDL \/ NextP1 \/ NextD1 \/ NextST \/ NextWL

Spec == Init /\ [][Next]_vars

\* One component at a time.
StartPL == Init /\ rev = "PL"
SpecPL == StartPL /\ [][NextPL]_vars
\* A goroutine that is inside storeConn goes on, none of its two selects
\* waiting for anything, and the timer of a waiting dial call fires.
FairPL ==
  /\ \A a \in Acceptors : WF_vars(StoreDrain(a)) /\ WF_vars(StorePut(a))
  /\ \A d \in Dialers : WF_vars(DialTimeout(d))
\* The fair runs follow one goroutine that calls Accept again and again.
StartPLFair == StartPL /\ loops = 1
SpecPLFair == StartPLFair /\ [][NextPL]_vars /\ FairPL

StartDL == Init /\ rev = "DL"
SpecDL == StartDL /\ [][NextDL]_vars
StartP1 == Init /\ rev = "PL1"
SpecP1 == StartP1 /\ [][NextP1]_vars
StartD1 == Init /\ rev = "DL1"
SpecD1 == StartD1 /\ [][NextD1]_vars

StartST == Init /\ rev = "ST"
SpecST == StartST /\ [][NextST]_vars

StartWL == Init /\ rev = "WL"
SpecWL == StartWL /\ [][NextWL]_vars

\* Both listeners of part_001 that have a Close of their own.
StartPart1 == Init /\ rev \in {"PL1", "DL1"}
NextPart1 == NextP1 \/ NextD1
SpecPart1 == StartPart1 /\ [][NextPart1]_vars

\* The DialListener of both revisions.
StartDials == Init /\ rev \in {"DL", "DL1"}
NextDials == NextDL \/ NextD1
SpecDials == StartDials /\ [][NextDials]_vars

\* The PrefaceListener of both revisions.
StartPrefaces == Init /\ rev \in {"PL", "PL1"}
NextPrefaces == NextPL \/ NextP1
SpecPrefaces == StartPrefaces /\ [][NextPrefaces]_vars

\* ================================================================ claims
StartsWith(s, p) == Len(s) >= Len(p) /\ SubSeq(s, 1, Len(p)) = p
ConnIds == 1..Len(conns)
ChanIds == 1..Len(chans)
InBuf(c, k) == \E i \in 1..Len(chans[k].buf) : chans[k].buf[i] = c
\* The connections whose storeConn on channel k has run to its end.
Stored(k) == {c \in ConnIds : conns[c].chan = k /\ conns[c].fate \in {"slot", "refused"}}
Latest(S) == CHOOSE m \in S : \A x \in S : x <= m
Storing(k) == \E a \in Acceptors : acc[a].pc = "store" /\ acc[a].chan = k

\* C1 (progutil.go and part_001): a connection PrefaceListener.Accept
\* returns to its caller as a client connection reads, to its end, as exactly
\* the bytes the peer sent, in order, the bytes Accept consumed while
\* classifying included.
C1_ClientBytesPreserved ==
  (ev.op = "Accept" /\ ev.kind = "conn") => ReadAll(ev.val) = ev.val.sent

\* C1 witness: Accept has returned a client connection of which it had
\* consumed a full packet, with more bytes to follow.
C1_Witness ==
  /\ ev.op = "Accept" /\ ev.kind = "conn"
  /\ ev.val.pos = PacketLen /\ Len(ev.val.sent) > PacketLen
  /\ ev.val.replay # <<>> /\ Rest(ev.val) # <<>>

\* The eviction rule of C2 for channel k: once no storeConn is between its
\* two selects on k, of the connections stored on k every one but the most
\* recent is closed and out of the channel unless a dial claimed it, and the
\* most recent one is what the channel holds, unless a dial has claimed it.
EvictionRule(k) ==
  (Stored(k) # {} /\ ~Storing(k)) =>
    LET m == Latest(Stored(k)) IN
      /\ \A c \in Stored(k) \ {m} :
           conns[c].claims = 0 => conns[c].closed /\ ~InBuf(c, k)
      /\ \/ chans[k].buf = <<m>> /\ conns[m].claims = 0 /\ ~conns[m].closed
         \/ chans[k].buf = <<>> /\ conns[m].claims = 1

\* A connection the listener closed is in no channel and was never claimed.
ClosedIsGone ==
  \A c \in ConnIds : conns[c].closed =>
    conns[c].claims = 0 /\ \A k \in ChanIds : ~InBuf(c, k)

\* C2 as stated: every slot holds at most one unclaimed connection, and
\* when c2 is classified while an earlier c1 of the same slot is unclaimed,
\* c1 is closed and the next dial on the slot returns c2, never c1.
C2_Original ==
  \A k \in ChanIds : Len(chans[k].buf) <= 1 /\ EvictionRule(k)

\* C2 amended: every slot holds at most one unclaimed connection and a
\* connection evicted from a slot is closed and never delivered; with a
\* single goroutine calling Accept, the later classified connection evicts
\* the earlier one and is the one the next dial returns.
C2_SlotHoldsLatest ==
  /\ \A k \in ChanIds : Len(chans[k].buf) <= 1
  /\ ClosedIsGone
  /\ loops = 1 => \A k \in ChanIds : EvictionRule(k)

\* C2 witness: a second connection was stored on a slot whose first one was
\* never claimed.
C2_Witness ==
  /\ loops = 1
  /\ \E k \in ChanIds : \E c1, c2 \in Stored(k) :
       c1 < c2 /\ conns[c1].closed /\ chans[k].buf = <<c2>>

\* C3: a stored connection is returned by at most one dial call, the call
\* takes it out of the slot, and leaves the slot empty for the next call.
C3_ClaimedOnce ==
  /\ \A c \in ConnIds : conns[c].claims <= 1
  /\ \A c \in ConnIds : conns[c].claims = 1 => \A k \in ChanIds : ~InBuf(c, k)
  /\ (ev.op = "Dial" /\ ev.kind = "conn") =>
       conns[ev.conn].claims = 1 /\ chans[ev.chan].buf = <<>>

\* C3 witness: a dial call has claimed a connection while another dial call
\* is waiting on the same slot.
C3_Witness ==
  /\ ev.op = "Dial" /\ ev.kind = "conn"
  /\ \E d \in Dialers : dial[d].pc = "wait" /\ dial[d].chan = ev.chan

\* C4 as stated: a connection from a registered address that sends EVA as
\* its first bytes is never returned by Accept to its own caller.
C4_Original ==
  ~ /\ ev.op = "Accept" /\ ev.kind = "conn"
    /\ ev.val.addr \in DOMAIN ch
    /\ StartsWith(ev.val.sent, EVA)

\* The only connection of its address that Accept classified as EVA.
SoleEva(c) ==
  \A o \in ConnIds \ {c} : ~(conns[o].addr = conns[c].addr /\ conns[o].agent = "EVA")

\* C4 amended: a connection from a registered address whose first Read
\* returns exactly EVA is never returned by Accept; being the only such
\* arrival of its address it is kept open and put into the address's EVA
\* slot, where it stays until a dial claims it; and a connection DialEva(A)
\* returns is one that came from A and announced EVA.
C4_EvaRouted ==
  /\ ~(ev.op = "Accept" /\ ev.kind = "conn"
       /\ SubSeq(ev.val.sent, 1, ev.val.pos) = EVA)
  /\ \A c \in ConnIds :
       (conns[c].agent = "EVA" /\ conns[c].chan # 0 /\ SoleEva(c)) =>
         /\ ~conns[c].closed
         /\ chans[conns[c].chan].role = "EVA"
         /\ chans[conns[c].chan].addr = conns[c].addr
         /\ \/ conns[c].fate = "held"
            \/ /\ conns[c].fate = "slot"
               /\ \/ chans[conns[c].chan].buf = <<c>> /\ conns[c].claims = 0
                  \/ chans[conns[c].chan].buf = <<>> /\ conns[c].claims = 1
  /\ (ev.op = "Dial" /\ ev.kind = "conn") =>
       /\ conns[ev.conn].addr = chans[ev.chan].addr
       /\ conns[ev.conn].agent = chans[ev.chan].role
       /\ StartsWith(conns[ev.conn].sent, IF chans[ev.chan].role = "EVA" THEN EVA ELSE ELA)

\* C4 witness: DialEva on a registered address has returned the one
\* connection from that address that sent EVA.
C4_Witness ==
  /\ ev.op = "Dial" /\ ev.kind = "conn"
  /\ chans[ev.chan].role = "EVA"
  /\ conns[ev.conn].agent = "EVA" /\ SoleEva(ev.conn)
  /\ StartsWith(conns[ev.conn].sent, EVA)

\* C5 as stated: Accept returns only a client connection or the wrapped
\* listener's error; after absorbing a role-tagged connection it does not
\* return.
C5_Original ==
  ev.op = "Accept" => ev.kind \in {"conn", "err"}

\* C6: a dial call that times out returns DeadlineExceeded with no
\* connection and changes no slot and no connection; a waiting dial call
\* whose slot is empty can return only that way; and a waiting dial call can
\* always time out, as long as the process runs.
C6_TimeoutLeavesSlot ==
  /\ [][(ev'.op = "Dial" /\ ev'.kind = "deadline" /\ ev' # ev) =>
          (ev'.conn = 0 /\ chans' = chans /\ conns' = conns)]_vars
  /\ [][\A d \in Dialers :
          (dial[d].pc = "wait" /\ dial'[d].pc = "idle"
           /\ chans[dial[d].chan].buf = <<>>) =>
            (ev'.op = "Dial" /\ ev'.kind = "deadline")]_vars
  /\ [](mapw # Fatal =>
          \A d \in Dialers : dial[d].pc = "wait" => ENABLED DialTimeout(d))

\* C6 witness: a dial call has timed out on a registered address none of
\* whose slots holds a connection.
C6_Witness ==
  /\ ev.op = "Dial" /\ ev.kind = "deadline"
  /\ ChanIds # {}
  /\ \A k \in ChanIds : chans[k].buf = <<>>

\* C9 as stated (progutil.go and part_001): once PrefaceListener.Close has
\* been called (in part_001: has returned), a dial call returns neither a
\* connection nor a mere timeout.
C9_Original ==
  ((lisClosed \/ p1ch.closed) /\ ev.op = "Dial") => ev.kind \notin {"conn", "deadline"}

PoolIds == 1..Len(pool)

\* C7 as stated: active <= established in every reachable state.
C7_Original == active <= established

\* How often the connections 1..i have decremented established.
RECURSIVE Decs(_)
Decs(i) == IF i = 0 THEN 0 ELSE pool[i].decs + Decs(i - 1)

\* C8: a delivered connection decrements established at most once, it has
\* done so exactly when its onceErr has been entered, it has done so once
\* Close on it has returned, and nothing else lowers established.
C8_DecrementedOnce ==
  /\ \A c \in PoolIds :
       /\ pool[c].decs <= 1
       /\ pool[c].decs = 1 <=> pool[c].onceErr # "new"
       /\ pool[c].closed => pool[c].decs = 1
  /\ established = Len(pool) - Decs(Len(pool))

\* C8 witness: Close on a connection has returned while another goroutine,
\* whose Write or Read on it failed terminally, has yet to call onceErr.Do.
C8_Witness ==
  /\ ev.op = "Close" /\ pool[ev.conn].closed
  /\ \E w \in Workers : wrk[w].pc = "onceErr" /\ wrk[w].conn = ev.conn

\* C10 as stated (progutil.go and part_001): once DialListener.Close has
\* been called, an Accept call returns a non-temporary error: it neither
\* reports a failed or skipped dial as temporary nor returns a connection.
C10_Original ==
  ((dlClosed \/ d1closed) /\ ev.op = "DLAccept") =>
    ev.kind \notin {"spare", "unreachable", "conn"}

\* C11 as stated: an Accept call goes on to a connect attempt only if no
\* spare connection existed when it was invoked (established <= active).
C11_Original ==
  \A a \in Acceptors : dacc[a].pc = "dial" => ~dacc[a].spare

\* Some step of the Accept call of goroutine a can be taken.
DLAcceptCanStep(a) ==
  ENABLED (DLAcceptLoad(a) \/ DLAcceptCompare(a) \/ DLAcceptDial(a))
D1AcceptCanStep(a) ==
  ENABLED (D1AcceptInit(a) \/ D1AcceptOuter(a) \/ D1AcceptInner(a)
           \/ D1AcceptDial(a) \/ D1AcceptGiveBack(a))

C13_NamedThenCounted ==
  /\ [][Len(pool') # Len(pool) =>
          /\ Len(pool') = Len(pool) + 1
          /\ \A c \in 1..Len(pool) : pool'[c] = pool[c]
          /\ established' = established + 1
          /\ active' = active
          /\ ev' = Ev("DLAccept", "conn", Len(pool'))
          /\ \E sent \in {"sent", "failed"} :
               pool'[Len(pool')] = [NewPooled EXCEPT !.name = sent, !.delivered = TRUE]]_vars
  /\ []((ev.op = "DLAccept" /\ ev.kind = "conn") =>
          /\ ev.conn \in Delivered
          /\ pool[ev.conn].name # "none"
          /\ established = Len(pool) - Decs(Len(pool)))
  /\ []((ev.op = "Write" /\ ev.n > 0) => pool[ev.conn].name = "sent")

\* C13 witness: the upper layer has written bytes on a delivered connection
\* whose peer has got the Name, while the Write of the Name failed on
\* another delivered connection.
C13_Witness ==
  /\ ev.op = "Write" /\ ev.n > 0 /\ pool[ev.conn].name = "sent"
  /\ \E c \in Delivered : pool[c].name = "failed"

\* C14 as stated (progutil.go): a role-token connection from an address
\* that is not registered has been closed, is in no channel and has been
\* returned by no dial.
C14_Original ==
  \A c \in ConnIds :
    conns[c].fate = "unrouted" =>
      /\ conns[c].closed
      /\ conns[c].claims = 0
      /\ \A k \in ChanIds : ~InBuf(c, k)

\* C15 as stated (both revisions): a connection the listener keeps for a
\* handoff slot is one whose first bytes were a whole known prefix (a role
\* token in progutil.go; part_001 knows no prefix but the client's, so it
\* keeps none); every other connection went to the caller of Accept,
\* replaying exactly the bytes read.
C15_Original ==
  /\ \A c \in ConnIds :
       conns[c].fate # "client" => conns[c].agent \in {"EVA", "ELA"} /\ conns[c].pos = PacketLen
  /\ \A c \in 1..Len(p1conns) : p1conns[c].fate = "client"
  /\ (ev.op = "Accept" /\ ev.kind = "conn") =>
       ev.val.replay = SubSeq(ev.val.sent, 1, ev.val.pos)

\* The registrations whose name is the server name of connection c.
Matching(c) == {k \in 1..Len(stReg) : stReg[k] = c.sni}

\* C16 (part_001): when SplitTLSListener.Accept is done with a handshaken
\* TLS connection, then, if some registration has the connection's server
\* name, the connection has been offered to the channel of the first such
\* registration (it is in that channel, whose child listener can take it,
\* or the channel was full) and Accept has not returned it; if no
\* registration has, Accept has returned this connection.  A TLS connection
\* Accept returns matches no registration.
C16_FirstMatchGetsIt ==
  /\ [][\A a \in Acceptors :
          (stAcc[a].pc = "match" /\ stAcc'[a].pc # "match") =>
            LET c == stAcc[a].conn IN
              IF Matching(c) # {}
              THEN /\ ev'.op = "STLoop" /\ ev'.kind \in {"queued", "dropped"}
                   /\ ev'.val = c
                   /\ ev'.chan \in Matching(c)
                   /\ \A j \in Matching(c) : ev'.chan <= j
                   /\ \A j \in 1..Len(stReg) : j # ev'.chan => stQ'[j] = stQ[j]
                   /\ ev'.kind = "queued" => stQ'[ev'.chan] = Append(stQ[ev'.chan], c)
                   /\ ev'.kind = "dropped" => Len(stQ[ev'.chan]) = QueueCap /\ stQ' = stQ
              ELSE ev' = STEv("STAccept", "conn", c, 0) /\ stQ' = stQ]_vars
  /\ []((ev.op = "STAccept" /\ ev.kind = "conn" /\ ev.val.tls) =>
          ev.val.hs /\ Matching(ev.val) = {})
  /\ []((ev.op = "STLoop" /\ ev.kind = "queued") => ENABLED ChildAccept(ev.chan))

\* C16 witness: two registrations of one server name, and a connection with
\* that name has gone into the channel of the first.
C16_Witness ==
  /\ Len(stReg) = 2 /\ stReg[1] = stReg[2]
  /\ ev.op = "STLoop" /\ ev.kind = "queued" /\ ev.chan = 1
  /\ ev.val.sni = stReg[1]
  /\ stQ[1] # <<>> /\ stQ[2] = <<>>

\* C17 as stated (part_001): a connection whose child's channel was full
\* has been closed, and the Accept loop goes on.
C17_Original ==
  (ev.op = "STLoop" /\ ev.kind = "dropped") =>
    /\ ev.val.closed
    /\ \A a \in 1..loops : stAcc[a].pc = "idle" => ENABLED (STAcceptConn(a) \/ STAcceptErr(a))

\* C18 (part_001): a connection whose Handshake failed has been closed, has
\* gone to no child and has not been returned, and the Accept call that
\* had it is at the wrapped listener's Accept again, which it can go on
\* with; whatever Accept returns or routes has either finished its
\* Handshake or is no TLS connection; and Accept returns an error only
\* when the wrapped listener's Accept fails.
C18_HandshakeFailureDropped ==
  /\ []((ev.op = "STLoop" /\ ev.kind = "handshake") =>
          /\ ev.val.tls /\ ~ev.val.hs /\ ev.val.closed /\ ev.chan = 0
          /\ \A a \in 1..loops :
               stAcc[a].pc = "idle" => ENABLED (STAcceptConn(a) \/ STAcceptErr(a)))
  /\ [][(ev'.op = "STLoop" /\ ev'.kind = "handshake") => (stQ' = stQ /\ stAcc' = stAcc)]_vars
  /\ []((ev.op \in {"STAccept", "STLoop", "ChildAccept"} /\ ev.kind \in {"conn", "queued", "dropped"}) =>
          (ev.val.tls => ev.val.hs) /\ ~ev.val.closed)
  /\ []((ev.op = "STAccept" /\ ev.kind = "err") => stLis)
  /\ [][(ev'.op = "STAccept" /\ ev'.kind = "err") => stLis]_vars

\* C18 witness: a Handshake has failed while a registration exists and a
\* connection waits in its channel; the failed connection is closed.
C18_Witness ==
  /\ ev.op = "STLoop" /\ ev.kind = "handshake" /\ ev.val.closed
  /\ ~stLis
  /\ \E k \in 1..Len(stReg) : stQ[k] # <<>>

\* C19 (progutil.go): no pooled connection has incremented active more
\* than once, and one that has is marked active; active rises, and a
\* connection's count of increments changes, only in the step in which a
\* Read on that connection that got n > 0 bytes and no terminal error
\* finishes its onceRead body, and then by exactly 1.
C19_ActivatedOnce ==
  /\ [](\A c \in PoolIds :
          /\ pool[c].incs <= 1
          /\ pool[c].incs = 1 => pool[c].flag /\ pool[c].onceRead = "done")
  /\ [][(active' > active \/ \E c \in PoolIds : pool'[c].incs # pool[c].incs) =>
          \E w \in Workers :
            /\ wrk[w].pc = "readAct" /\ wrk[w].op = "Read"
            /\ wrk[w].n > 0 /\ ~IsTerminal(wrk[w].err)
            /\ active' = active + 1
            /\ pool[wrk[w].conn].incs = 0
            /\ \A c \in PoolIds :
                 pool'[c].incs = pool[c].incs + (IF c = wrk[w].conn THEN 1 ELSE 0)
            /\ ev' = [Ev("Read", wrk[w].err, wrk[w].conn) EXCEPT !.n = wrk[w].n]]_vars

\* C19 witness: a non-empty Read has returned on a connection that has
\* incremented active once, while another non-empty Read on the same
\* connection is about to call onceRead.Do.
C19_Witness ==
  /\ ev.op = "Read" /\ ev.n > 0 /\ pool[ev.conn].incs = 1 /\ active = 1
  /\ \E w \in Workers : wrk[w].pc = "onceRead" /\ wrk[w].conn = ev.conn

\* C20 as stated (part_001): an Accept call during whose connect
\* DialListener.Close has closed lis.closing ends that connect with an
\* error: it adds no connection and returns none.
C20_Original ==
  [][\A a \in Acceptors :
       (d1acc[a] = "dialx" /\ d1acc'[a] # "dialx") =>
         /\ d1pool' = d1pool
         /\ ~(ev'.op = "DLAccept" /\ ev'.kind = "conn")
         /\ d1conn' = d1conn]_vars

\* C21 as stated (part_001): whenever a Close call has returned, the slot
\* channel, or the closing signal, is closed, and it has been closed once
\* only (a second close of a channel panics).
C21_Original ==
  /\ p1panic # "close of closed channel"
  /\ (rev = "PL1" /\ ev.op = "Close") => p1ch.closed /\ p1ch.cleanup = "done"
  /\ d1closed => d1closing = "closed"

\* C22 as stated (part_001): when Close on a delivered connection has
\* returned, that connection has given the redial token back (its once has
\* been entered).
C22_Original ==
  (rev = "DL1" /\ ev.op = "Close") => d1pool[ev.conn].once # "new"

\* C23 (progutil.go, one goroutine calling Accept): a dial call that
\* returns a connection returns none that was accepted before the last
\* connection stored for its slot when the call started; and the
\* connection it returns is the most recent of all whose storeConn on that
\* channel has finished, so none is delivered after a fresher one.
C23_NeverStale ==
  [][loops = 1 =>
       \A d \in Dialers :
         (dial[d].pc = "wait" /\ dial'[d].pc = "idle" /\ ev'.kind = "conn") =>
           /\ ev'.op = "Dial" /\ ev'.chan = dial[d].chan
           /\ ev'.conn >= dial[d].after
           /\ \A c \in Stored(dial[d].chan) : c <= ev'.conn
           /\ ~conns[ev'.conn].closed]_vars

\* C23 witness: with one Accept loop, a dial call that started after a
\* second connection had been stored for its slot has returned that second
\* connection; the first one was never claimed and is closed.
C23_Witness ==
  /\ loops = 1
  /\ ev.op = "Dial" /\ ev.kind = "conn" /\ ev.conn = 2
  /\ conns[1].chan = ev.chan /\ conns[1].fate = "slot"
  /\ conns[1].closed /\ conns[1].claims = 0

\* C24 (progutil.go): Addr returns the wrapped listener's address.
\* SetDeadline on a wrapped listener that has the method gives it the
\* deadline and returns what it returns: nil with the deadline set, or its
\* error (it is closed) with the deadline as it was; on a wrapped listener
\* without the method it returns errNoDeadlineSupport and changes nothing.
C24_PassThrough ==
  /\ [](ev.op = "Addr" => ev.val = wlAddr)
  /\ [][ev'.op = "SetDeadline" =>
          IF wlKind = "tcp"
          THEN IF wlClosed
               THEN ev'.kind = "closed" /\ wlDeadline' = wlDeadline
               ELSE ev'.kind = "nil" /\ wlDeadline' = ev'.n
          ELSE ev'.kind = "errNoDeadlineSupport" /\ UNCHANGED wlVars]_vars
  /\ [](wlKind = "plain" => wlDeadline = 0)
  /\ []((ev.op = "SetDeadline" /\ ev.kind = "nil") => wlDeadline = ev.n)

\* C24 witness: SetDeadline has returned errNoDeadlineSupport.
C24_Witness ==
  /\ ev.op = "SetDeadline" /\ ev.kind = "errNoDeadlineSupport"
  /\ wlKind = "plain" /\ wlDeadline = 0

\* C25 as stated (progutil.go): when every delivered connection has been
\* closed and no Read, Write or Close call on a connection is under way,
\* both counters are 0.
C25_Original ==
  (/\ \A c \in PoolIds : pool[c].closed
   /\ \A w \in Workers : wrk[w].pc = "idle") =>
    established = 0 /\ active = 0

\* The Accept calls that hold the token, and the delivered connections
\* that have not yet put it back.
TokenCalls == {a \in Acceptors : InDial(d1acc[a]) \/ d1acc[a] = "giveback"}
TokenConns == {c \in 1..Len(d1pool) : d1pool[c].once # "done"}

\* C26 (part_001): once the first Accept call has made the channels, the
\* tokens in redialC, the Accept calls that have taken the token and not
\* yet returned, and the delivered connections that have not yet given it
\* back after a terminal Read/Write error, add up to 1; so at most one such
\* connection exists, before the first Accept there is none, and whoever
\* is about to send into redialC finds it empty.
C26_OneToken ==
  /\ d1closing # "nil" =>
       d1redial + Cardinality(TokenCalls) + Cardinality(TokenConns) = 1
  /\ d1closing = "nil" => d1redial = 0 /\ TokenCalls = {} /\ d1pool = <<>>
  /\ Cardinality(TokenConns) <= 1
  /\ \A a \in Acceptors : d1acc[a] = "giveback" => d1redial < ChanCap
  /\ \A w \in Workers : d1wrk[w].pc = "send" => d1redial < ChanCap

\* C26 witness: a second connection has been delivered after the first one
\* failed, and is the one that holds the token.
C26_Witness ==
  /\ rev = "DL1" /\ Len(d1pool) = 2
  /\ ev.op = "DLAccept" /\ ev.kind = "conn" /\ ev.conn = 2
  /\ d1pool[1].once = "done" /\ d1pool[2].once = "new" /\ d1redial = 0

\* The connections that are closed, in either revision.
ClosedConns == {c \in ConnIds : conns[c].closed}
P1ClosedConns == {c \in 1..Len(p1conns) : p1conns[c].closed}
P1InBuf(c) == \E i \in 1..Len(p1ch.buf) : p1ch.buf[i] = c

\* Where a connection is once its store has run to the end: in the slot,
\* claimed by a dial call, or closed; until then a goroutine in Accept
\* holds it.
C27_Disposed ==
  /\ \A c \in ConnIds : conns[c].chan # 0 =>
        IF conns[c].fate = "held"
        THEN \E a \in Acceptors : acc[a].pc \in {"drain", "store"} /\ acc[a].conn = c
        ELSE \/ InBuf(c, conns[c].chan)
             \/ conns[c].claims >= 1
             \/ conns[c].closed
  /\ \A c \in 1..Len(p1conns) : p1conns[c].fate # "client" =>
        IF p1conns[c].fate = "held"
        THEN \E a \in Acceptors : p1acc[a].pc \in {"drain", "store"} /\ p1acc[a].conn = c
        ELSE \/ P1InBuf(c)
             \/ p1conns[c].claims >= 1
             \/ p1conns[c].closed

\* Neither select of the store ever waits: whatever the dial calls and the
\* other Accept call have done, its next step can be taken.
C27_CanStep ==
  /\ (rev = "PL" /\ mapw # Fatal) =>
       \A a \in Acceptors :
         /\ acc[a].pc = "drain" => ENABLED StoreDrain(a)
         /\ acc[a].pc = "store" => ENABLED StorePut(a)
  /\ (rev = "PL1" /\ p1panic = "") =>
       \A a \in Acceptors :
         /\ p1acc[a].pc = "drain" => ENABLED P1StoreDrain(a)
         /\ p1acc[a].pc = "store" => ENABLED P1StorePut(a)

\* One store: the first select closes at most one connection, one that was
\* unclaimed in the slot; the second select puts the new connection into
\* the slot or, when the slot is occupied, closes it.
C27_Step ==
  /\ \A a \in Acceptors :
       /\ (acc[a].pc = "drain" /\ acc'[a].pc = "store") =>
            /\ Cardinality({c \in ConnIds : conns'[c].closed}) <= Cardinality(ClosedConns) + 1
            /\ \A c \in ConnIds : conns'[c].closed /\ ~conns[c].closed =>
                  InBuf(c, acc[a].chan) /\ conns[c].claims = 0
       /\ (acc[a].pc = "store" /\ acc'[a].pc = "idle") =>
            LET c == acc[a].conn
                k == acc[a].chan
            IN  IF Len(chans[k].buf) < ChanCap
                THEN chans'[k].buf = Append(chans[k].buf, c) /\ ~conns'[c].closed
                ELSE chans'[k] = chans[k] /\ conns'[c].closed
  /\ \A a \in Acceptors :
       /\ (p1acc[a].pc = "drain" /\ p1acc'[a].pc = "store") =>
            /\ Cardinality({c \in 1..Len(p1conns) : p1conns'[c].closed})
                 <= Cardinality(P1ClosedConns) + 1
            /\ \A c \in 1..Len(p1conns) : p1conns'[c].closed /\ ~p1conns[c].closed =>
                  P1InBuf(c) /\ p1conns[c].claims = 0
       /\ (p1acc[a].pc = "store" /\ p1acc'[a].pc = "idle") =>
            LET c == p1acc[a].conn IN
              IF Len(p1ch.buf) < ChanCap
              THEN p1ch'.buf = Append(p1ch.buf, c) /\ ~p1conns'[c].closed
              ELSE p1ch' = p1ch /\ p1conns'[c].closed

\* C27 (progutil.go and part_001): storing a classified connection never
\* makes Accept wait, whatever concurrent dial calls or other Accept calls
\* do: the store closes at most one stale unclaimed connection without
\* waiting, then tries a non-waiting send, and closes the new connection
\* when the slot is occupied at that moment; every connection the store
\* has dealt with is in the slot, claimed by a dial call, or closed.
C27_StoreNeverWaits == [](C27_CanStep /\ C27_Disposed) /\ [][C27_Step]_vars

\* C27 witness: with two goroutines in Accept and a dial call waiting, a
\* store has just found the slot occupied after its own drain, and has
\* closed the new connection instead of waiting.
C27_Witness ==
  /\ rev = "PL" /\ loops = 2
  /\ \E c \in ConnIds :
       /\ conns[c].fate = "refused" /\ conns[c].closed
       /\ Len(chans[conns[c].chan].buf) = ChanCap
  /\ \E d \in Dialers : dial[d].pc = "wait"
  /\ ev.op = "Accept" /\ ev.kind = "temp"

\* C28 (progutil.go): the connection DialEva/DialEla returns yields exactly
\* what the peer sent after its 3-byte role token: the token, consumed by
\* the classification, is not replayed, and no byte after it is lost.
C28_BytesAfterToken ==
  (rev = "PL" /\ ev.op = "Dial" /\ ev.kind = "conn") =>
    LET c == conns[ev.conn] IN
      /\ Len(c.sent) >= PacketLen
      /\ SubSeq(c.sent, 1, PacketLen) = (IF c.agent = "EVA" THEN EVA ELSE ELA)
      /\ c.agent \in {"EVA", "ELA"}
      /\ c.sent = SubSeq(c.sent, 1, PacketLen) \o ReadAll(c)

\* C28 witness: DialEla has returned a connection whose peer sent "ELA" and
\* then application bytes, and reading it yields those bytes.
C28_Witness ==
  /\ rev = "PL" /\ ev.op = "Dial" /\ ev.kind = "conn"
  /\ conns[ev.conn].agent = "ELA"
  /\ conns[ev.conn].sent = ELA \o AppBytes(MaxTail)
  /\ ReadAll(conns[ev.conn]) = AppBytes(MaxTail)
  /\ MaxTail > 0

\* C29 (part_001): a connection that is unclaimed in the channel when
\* PrefaceListener.Close is called is closed by Close: once Close has closed
\* the channel, no open connection is left in it, and no Dial call returns
\* an open connection.
C29_Original ==
  (rev = "PL1" /\ p1ch.closed) =>
    /\ \A c \in 1..Len(p1conns) : P1InBuf(c) => p1conns[c].closed
    /\ (ev.op = "Dial" /\ ev.kind = "conn") => p1conns[ev.conn].closed

\* A step in which storeConn or a dial call reads the map l.ch.
StoreConnReads ==
  \E a \in Acceptors :
    /\ acc[a].pc = "idle"
    /\ \/ acc'[a].pc = "drain"
       \/ /\ Len(conns') = Len(conns) + 1
          /\ conns'[Len(conns')].fate = "unrouted"
DialReads ==
  \E d \in Dialers :
    /\ dial[d].pc = "idle"
    /\ dial'[d].pc = "wait" \/ (ev'.op = "Dial" /\ ev'.kind = "unregistered")

\* C30 (progutil.go): every access to the map of registered addresses is
\* synchronized: while a RegisterHost call is writing the map, neither
\* storeConn nor a dial call reads it, and no read is stopped by the
\* runtime as a concurrent map read and map write.
C30_Original ==
  [][(rev = "PL" /\ mapw \in Addrs) =>
       ~(StoreConnReads \/ DialReads \/ mapw' = Fatal)]_vars

\* A goroutine inside a Read or Write of the tracker, past the underlying
\* connection's call.
InTracker(w) == wrk[w].pc # "idle" /\ wrk[w].op \in {"Read", "Write"}
D1InTracker(w) == d1wrk[w].pc # "idle" /\ d1wrk[w].op \in {"Read", "Write"}

\* The step in which a Read or Write returns a temporary error changes no
\* counter, no connection and no token.
C31_TempStep ==
  (ev'.op \in {"Read", "Write"} /\ ev'.kind = "temp") =>
    /\ established' = established /\ active' = active /\ pool' = pool
    /\ d1redial' = d1redial /\ d1pool' = d1pool
    /\ \A w \in Workers : wrk[w].pc # "idle" => wrk'[w] = wrk[w]
    /\ \A w \in Workers : d1wrk[w].pc # "idle" => d1wrk'[w] = d1wrk[w]

\* The step in which a Read or Write returns after its once: what it returns
\* is the (n, err) the underlying connection had returned.
C31_ReturnStep ==
  /\ \A w \in Workers : (InTracker(w) /\ wrk'[w].pc = "idle") =>
        /\ ev'.op = wrk[w].op /\ ev'.conn = wrk[w].conn
        /\ ev'.n = wrk[w].n /\ ev'.kind = wrk[w].err
  /\ \A w \in Workers : (D1InTracker(w) /\ d1wrk'[w].pc = "idle") =>
        /\ ev'.op = d1wrk[w].op /\ ev'.conn = d1wrk[w].conn
        /\ ev'.n = d1wrk[w].n /\ ev'.kind = d1wrk[w].err

\* No call whose underlying result is a temporary error, or no error at
\* all with no byte, is ever at a once; what a call has from the underlying
\* connection is one of that connection's results.
C31_NoTempInside ==
  /\ \A w \in Workers : InTracker(w) =>
        /\ wrk[w].err # "temp"
        /\ wrk[w].pc \in {"onceErr", "errFlag", "errAct"} => IsTerminal(wrk[w].err)
  /\ \A w \in Workers : D1InTracker(w) => IsTerminal(d1wrk[w].err)

\* C31 (progutil.go and part_001): a Read or Write on a pooled connection
\* that fails with a temporary network error changes neither established
\* nor active nor the connection's active flag, and gives back no redial
\* token; and whatever the error, the tracker returns the (n, err) of the
\* underlying connection.
C31_TemporaryIsIgnored ==
  [](C31_NoTempInside) /\ [][C31_TempStep /\ C31_ReturnStep]_vars

\* C31 witness: on a connection that has carried a byte, a Write has just
\* returned (0, temporary error), and the counters still count it.
C31_Witness ==
  /\ rev = "DL" /\ ev.op = "Write" /\ ev.kind = "temp" /\ ev.n = 0
  /\ pool[ev.conn].flag /\ pool[ev.conn].onceErr = "new"
  /\ established = 1 /\ active = 1

\* The connections in the channel of child k are in the order of their
\* numbers, and none of them has been returned by the child's Accept.
InAcceptOrder(k) ==
  /\ \A i, j \in 1..Len(stQ[k]) : i < j => stQ[k][i].seq < stQ[k][j].seq
  /\ \A i \in 1..Len(stQ[k]) : stQ[k][i].seq > stOut[k]

\* A step in which the Accept of child k returns: it returns the connection
\* that has waited longest, whose number is higher than that of every
\* connection the child has returned before, and takes it out of the channel.
ReturnsNext(k) ==
  (ev'.op = "ChildAccept" /\ ev'.chan = k /\ stQ'[k] # stQ[k]) =>
    /\ stQ[k] # <<>>
    /\ ev'.val = Head(stQ[k])
    /\ ev'.val.seq > stOut[k]
    /\ stQ'[k] = Tail(stQ[k])
    /\ \A j \in 1..Len(stReg) : j # k => stQ'[j] = stQ[j]

\* C32 (part_001): with one goroutine in the splitter's Accept, the
\* connections routed to a child are returned by the child's Accept in the
\* order in which the splitter accepted them, each at most once whoever
\* calls the child's Accept, and a connection that waits in the channel can
\* be returned.
C32_InAcceptOrder ==
  /\ []((rev = "ST" /\ loops = 1 /\ stLeft # Unlimited) =>
          \A k \in 1..Len(stReg) :
            /\ InAcceptOrder(k)
            /\ stQ[k] # <<>> => ENABLED ChildAccept(k))
  /\ [][(rev = "ST" /\ loops = 1 /\ stLeft # Unlimited) =>
          \A k \in 1..Len(stReg) : ReturnsNext(k)]_vars

\* C32 witness: the child's Accept has returned the first and then the
\* second connection routed to it while the third waits.
C32_Witness ==
  /\ rev = "ST" /\ loops = 1 /\ stLeft = 0
  /\ ev.op = "ChildAccept" /\ ev.val.seq = 2
  /\ stOut[ev.chan] = 2
  /\ Len(stQ[ev.chan]) = 1 /\ stQ[ev.chan][1].seq = 3

\* C32 as stated (part_001): the connections that wait in a child's
\* channel, which its Accept returns from the front, are in the order in
\* which the splitter accepted them, however many goroutines call the
\* splitter's Accept.
C32_Original ==
  (rev = "ST" /\ stLeft # Unlimited) =>
    \A k \in 1..Len(stReg) : InAcceptOrder(k)

\* The connections that wait in the channels of the children.
Routed == UNION {{stQ[k][i] : i \in 1..Len(stQ[k])} : k \in 1..Len(stReg)}

\* DropUnsplit between two calls of Accept: it holds the connection Accept
\* has returned, which is in no child's channel, and can close it; no
\* connection in a child's channel, and none a child's Accept returns, is
\* closed.
C33_Holds ==
  /\ \A a \in Acceptors :
        /\ stAcc[a].pc = "close" =>
              /\ stAcc[a].drop /\ ~stAcc[a].conn.closed
              /\ stAcc[a].conn.seq # 0 => \A c \in Routed : c.seq # stAcc[a].conn.seq
              /\ ENABLED DropClose(a)
        /\ (stAcc[a].drop /\ stAcc[a].pc = "idle") =>
              ENABLED (STAcceptConn(a) \/ STAcceptErr(a))
  /\ \A c \in Routed : ~c.closed
  /\ ev.op = "ChildAccept" => ~ev.val.closed

\* The steps of a goroutine in DropUnsplit: a connection its Accept returns
\* is the one it holds next; its next step closes that connection and
\* touches no child's channel; and it is in DropUnsplit until its Accept
\* returns an error.
C33_Steps ==
  \A a \in Acceptors : stAcc[a].drop =>
    /\ (stAcc'[a] # stAcc[a] /\ ev'.op = "STAccept" /\ ev'.kind = "conn") =>
          stAcc'[a] = [pc |-> "close", conn |-> ev'.val, drop |-> TRUE]
    /\ stAcc[a].pc = "close" =>
          \/ stAcc'[a] = stAcc[a]
          \/ /\ ev' = STEv("DropUnsplit", "closed", [stAcc[a].conn EXCEPT !.closed = TRUE], 0)
             /\ stAcc'[a].pc = "idle" /\ stAcc'[a].drop
             /\ stQ' = stQ
    /\ ~stAcc'[a].drop =>
          /\ stAcc[a].pc = "idle"
          /\ ev'.op = "STAccept" /\ ev'.kind = "err"
          /\ stLis

\* C33 (part_001): DropUnsplit calls the splitter's Accept again and again
\* and closes every connection Accept returns; it never closes a connection
\* that was routed to a child; and it stops only after Accept has returned
\* an error.
C33_DropsWhatAcceptReturns == [](rev = "ST" => C33_Holds) /\ [][C33_Steps]_vars

\* C33 witness: DropUnsplit has just closed a connection that Accept
\* returned to it because no child had its server name yet, while a later
\* connection with that name waits, open, in the channel of a child.
C33_Witness ==
  /\ rev = "ST"
  /\ ev.op = "DropUnsplit" /\ ev.kind = "closed" /\ ev.val.closed /\ ev.val.seq = 1
  /\ \E c \in Routed : c.sni = ev.val.sni /\ c.seq = 2 /\ ~c.closed
  /\ stAcc[1].drop

\* C34 as stated (part_001): once the wrapped listener has been closed, by
\* Close on a child or on the splitter, an Accept call on a child can
\* return, and what it returns is an error.
C34_Original ==
  (rev = "ST" /\ stLis) =>
    /\ \A k \in 1..Len(stReg) : ENABLED ChildAccept(k)
    /\ ev.op = "ChildAccept" => ev.kind = "err"

\* No Accept call has taken a connection from the wrapped listener yet.
NoAcceptYet == conns = <<>>

\* Connection c is role-tagged and from a registered address: Accept has
\* found the channel for it; and it is in that channel, or closed.
Tagged(c) == c <= Len(conns) /\ conns[c].chan # 0
StoredOrClosed(c) ==
  IF c <= Len(conns) THEN conns[c].fate = "slot" \/ conns[c].closed ELSE FALSE

\* Nothing but the store of an Accept call puts a connection into a
\* channel, and a dial call returns only a connection such a store has put
\* there; before any Accept call a waiting dial call ends only by its
\* timeout.
C35_OnlyAcceptStores ==
  /\ \A k \in 1..Len(chans) : Len(chans'[k].buf) > Len(chans[k].buf) =>
        \E a \in Acceptors :
          /\ acc[a].pc = "store" /\ acc[a].chan = k /\ acc'[a].pc = "idle"
          /\ chans'[k].buf = Append(chans[k].buf, acc[a].conn)
  /\ \A a \in Acceptors : (acc[a].pc = "store" /\ acc'[a].pc = "idle") =>
        \/ /\ conns'[acc[a].conn].fate = "slot"
           /\ chans'[acc[a].chan].buf = Append(chans[acc[a].chan].buf, acc[a].conn)
        \/ conns'[acc[a].conn].fate = "refused" /\ conns'[acc[a].conn].closed
  /\ (ev'.op = "Dial" /\ ev'.kind = "conn" /\ ev' # ev) =>
        conns[ev'.conn].fate = "slot"
  /\ \A d \in Dialers : (NoAcceptYet /\ dial[d].pc = "wait" /\ dial'[d].pc = "idle") =>
        ev' = Ev("Dial", "deadline", 0)

\* C35 (progutil.go): a connection becomes claimable only by a call of
\* Accept: before any such call every channel is empty and a waiting dial
\* call ends, with context.DeadlineExceeded; and when the goroutines in
\* Accept go on, every role-tagged connection from a registered address is
\* eventually in its channel or closed, as long as the process runs.
C35_AcceptFeedsDial ==
  /\ []((rev = "PL" /\ NoAcceptYet) =>
          /\ \A k \in 1..Len(chans) : chans[k].buf = <<>>
          /\ ~(ev.op = "Dial" /\ ev.kind = "conn"))
  /\ [][C35_OnlyAcceptStores]_vars
  /\ \A d \in Dialers :
        (dial[d].pc = "wait") ~> (dial[d].pc = "idle" \/ mapw = Fatal)
  /\ \A c \in 1..MaxConns : Tagged(c) ~> (StoredOrClosed(c) \/ mapw = Fatal)

\* C35 witness: no Accept call has been made, a dial call has ended with
\* context.DeadlineExceeded and another one is still waiting.
C35_Witness ==
  /\ rev = "PL" /\ NoAcceptYet
  /\ ev = Ev("Dial", "deadline", 0)
  /\ \E d \in Dialers : dial[d].pc = "wait"

\* The delivered connections that are ready for the upper layer: not
\* closed, no terminal error and no Close seen by the wrapper, no read that
\* returned bytes, and no call running on them.
ReadyConns ==
  {c \in Delivered :
     /\ ~pool[c].closed /\ pool[c].name = "sent"
     /\ pool[c].onceErr = "new" /\ pool[c].onceRead = "new"
     /\ \A w \in Workers : wrk[w].pc # "idle" => wrk[w].conn # c}

\* C36 (progutil.go), as claimed: with a single goroutine calling
\* DialListener.Accept, at most one delivered connection is open, without
\* terminal error and without a successful non-empty read.
C36_Original ==
  (rev = "DL" /\ loops = 1) => Cardinality(ReadyConns) <= 1

\* A dial call for (addr, role) returns connection c in this step.
DialReturns(d, c) ==
  /\ dial[d].pc = "wait" /\ dial'[d].pc = "idle"
  /\ ev' = [Ev("Dial", "conn", c) EXCEPT !.chan = dial[d].chan]

\* Accept returns a client connection in this step.
PassesThrough ==
  /\ Len(conns') = Len(conns) + 1
  /\ conns'[Len(conns')].fate = "client"

\* C37 (progutil.go): a connection stored for (address A, role R) is
\* returned only by the dial call for A and R: the connection DialEva
\* returns announced "EVA", the one DialEla returns announced "ELA", and its
\* peer address is the address dialled; every connection in a channel is in
\* the channel of its address and role; and an Accept call that returns a
\* client connection leaves every channel as it was.
C37_Step ==
  /\ \A d \in Dialers : \A c \in 1..Len(conns) :
        DialReturns(d, c) =>
          /\ conns[c].agent = dial[d].role
          /\ conns[c].addr = dial[d].addr
          /\ conns[c].fate = "slot"
  /\ PassesThrough => chans' = chans /\ ch' = ch
C37_OnlyItsOwnDial ==
  /\ [](rev = "PL" =>
          \A k \in 1..Len(chans) : \A i \in 1..Len(chans[k].buf) :
            /\ conns[chans[k].buf[i]].addr = chans[k].addr
            /\ conns[chans[k].buf[i]].agent = chans[k].role)
  /\ [][rev = "PL" => C37_Step]_vars

\* C37 witness: both channels of one address held a connection, and
\* DialEla has just returned the connection that announced "ELA" while the
\* "EVA" one stays stored.
C37_Witness ==
  /\ rev = "PL"
  /\ ev.op = "Dial" /\ ev.kind = "conn"
  /\ conns[ev.conn].agent = "ELA"
  /\ \E k \in 1..Len(chans) :
        /\ chans[k].buf # <<>> /\ chans[k].role = "EVA"
        /\ chans[k].addr = conns[ev.conn].addr

\* C38 (progutil.go), as claimed: the counters established and active of a
\* DialListener are never negative, the states between the steps of a
\* Read, a Write and a Close on one connection included.
C38_Original ==
  rev = "DL" => established >= 0 /\ active >= 0

\* C39 (part_001), as claimed: when Close runs beside an Accept call that
\* has accepted a connection without the client preface, the Accept call
\* neither sends on the closed channel nor calls Close on the nil
\* connection it received from it: it does not panic.
C39_Original ==
  rev = "PL1" => p1panic \notin {"send on closed channel", "nil pointer dereference"}

\* The channels the map l.ch holds: the ones storeConn and the dial calls
\* find from now on.
Current == UNION {{ch[x].eva, ch[x].ela} : x \in DOMAIN ch}

\* C40 (progutil.go), as claimed: RegisterHost for an address that is
\* registered already keeps that address's channels: a connection that is
\* stored and unclaimed is in a channel a dial call can still find, and
\* the channel a dial call waits on is one a later storeConn still finds.
C40_Original ==
  rev = "PL" =>
    /\ \A k \in 1..Len(chans) : chans[k].buf # <<>> => k \in Current
    /\ \A d \in Dialers : dial[d].pc = "wait" => dial[d].chan \in Current
====
